---- MODULE Spec2Model ----
(***************************************************************************)
(* Verification model of the crawleb article-ingestion pipeline.           *)
(*                                                                         *)
(*   Spec       WebCrawler.run_crawl (one sweep task) interleaved with     *)
(*              WebCrawler.crawl_single_url (one single-URL task) over the  *)
(*              shared DuckDB storage.  One step is the code between two    *)
(*              interleaving points: every Database call opens its own      *)
(*              connection and runs one statement, every LLM call is an     *)
(*              await.                                                      *)
(*   SpecSweep  run_crawl alone, on a source page that lists three          *)
(*              candidate articles.                                         *)
(*   SpecFlags  as SpecSequential, on a source page registered with any     *)
(*              combination of extract_topics and extract_companies.        *)
(*   SpecSequential  run_crawl and crawl_single_url one after the other, on  *)
(*              a source page whose two articles are enriched with           *)
(*              companies.                                                   *)
(*   SpecFetch  ContentExtractor._make_request against a scripted server.   *)
(*   SpecExtract  extract_article_content with its calls of _make_request   *)
(*              and of the parser's own download.                           *)
(*   SpecDiscover  extract_articles_from_page with its calls of             *)
(*              _make_request.                                              *)
(*   SpecValidate  is_valid_article applied to each dict of a bounded set.  *)
(*   SpecFilter  _is_likely_article_url applied to each url of a bounded    *)
(*              set.                                                        *)
(*   SpecLink   Database.link_article_topic and link_article_company        *)
(*              called in any order on a few ids.                           *)
(*   SpecTracker  the operations of JobStatusTracker called in any order    *)
(*              on a job the tracker holds and on a name it does not know.  *)
(*   SpecWeb    the handlers and background tasks of web/app.py as          *)
(*              coroutines of one event loop, with the job tracker.         *)
(***************************************************************************)
EXTENDS Integers, Sequences, FiniteSets, TLC

\* Python's None: for names and messages, for texts (a sequence holding one
\* token that is no character), and for row ids (the sequences start at 1)
None == "None"
NoneText == <<None>>
NoId == 0

(***************************************************************************)
(* Bounds of the model.                                                    *)
(***************************************************************************)
MaxSweeps == 1
MaxSingleCalls == 2
MaxFetches == 2

(***************************************************************************)
(* Text.  A Python str is a sequence of one-character strings.             *)
(***************************************************************************)
\* c * n
Rep(c, n) == [i \in 1..n |-> c]

UpperCase == <<"A", "B", "C", "D", "E", "F", "G", "H", "I", "J", "K", "L", "M",
               "N", "O", "P", "Q", "R", "S", "T", "U", "V", "W", "X", "Y", "Z">>
LowerCase == <<"a", "b", "c", "d", "e", "f", "g", "h", "i", "j", "k", "l", "m",
               "n", "o", "p", "q", "r", "s", "t", "u", "v", "w", "x", "y", "z">>

\* str.lower() on one character
LowerChar(c) ==
    IF \E i \in 1..26 : UpperCase[i] = c
    THEN LowerCase[CHOOSE i \in 1..26 : UpperCase[i] = c]
    ELSE c

\* str.lower()
Lower(s) == [i \in 1..Len(s) |-> LowerChar(s[i])]

\* the `in` operator on two strings: sub occurs in s
Contains(s, sub) ==
    \E i \in 1..(Len(s) - Len(sub) + 1) :
        \A k \in 1..Len(sub) : s[i + k - 1] = sub[k]

Whitespace == {" ", "\t", "\n"}

\* truth value of an Optional[str]
Truthy(s) == s # NoneText /\ s # <<>>

\* str.strip()
RECURSIVE LStrip(_)
LStrip(s) == IF s # <<>> /\ Head(s) \in Whitespace THEN LStrip(Tail(s)) ELSE s
RECURSIVE RStrip(_)
RStrip(s) ==
    IF s # <<>> /\ s[Len(s)] \in Whitespace THEN RStrip(SubSeq(s, 1, Len(s) - 1)) ELSE s
Strip(s) == RStrip(LStrip(s))

\* a Python string literal as a sequence of characters
error_indicators ==
    { <<"f","a","i","l","e","d"," ","t","o"," ","e","x","t","r","a","c","t">>,
      <<"c","o","n","t","e","n","t"," ","e","x","t","r","a","c","t","i","o","n"," ","f","a","i","l","e","d">>,
      <<"n","o"," ","t","i","t","l","e"," ","e","x","t","r","a","c","t","e","d">>,
      <<"n","o"," ","c","o","n","t","e","n","t"," ","e","x","t","r","a","c","t","e","d">>,
      <<"e","x","t","r","a","c","t","i","o","n"," ","f","a","i","l","e","d">>,
      <<"e","r","r","o","r",":">> }

MinContentLen == 100
MinTitleLen == 10

(***************************************************************************)
(* ContentExtractor.is_valid_article.  The record always carries the keys  *)
(* 'title' and 'content', so dict.get returns the stored value, None       *)
(* included, and None.lower() raises AttributeError.                       *)
(***************************************************************************)
is_valid_article_raises(d) == d.url # None /\ (d.title = NoneText \/ d.content = NoneText)

HasIndicator(d) ==
    \E ind \in error_indicators :
        Contains(Lower(d.title), ind) \/ Contains(Lower(d.content), ind)

\* the validator without its title floor
is_valid_article_no_title_floor(d) ==
    /\ d.url # None
    /\ ~HasIndicator(d)
    /\ Truthy(d.title) /\ Truthy(d.content)
    /\ Len(Strip(d.content)) >= MinContentLen

\* the validator with its content floor one character too high
is_valid_article_content_floor_above(d) ==
    /\ d.url # None
    /\ ~HasIndicator(d)
    /\ Truthy(d.title) /\ Truthy(d.content)
    /\ Len(Strip(d.content)) > MinContentLen
    /\ Len(Strip(d.title)) >= MinTitleLen

is_valid_article(d) ==
    /\ d.url # None
    /\ ~HasIndicator(d)
    /\ Truthy(d.title) /\ Truthy(d.content)
    /\ Len(Strip(d.content)) >= MinContentLen
    /\ Len(Strip(d.title)) >= MinTitleLen

(***************************************************************************)
(* The web.  Documents are what extract_article_content can return for a   *)
(* page: the state holds the name of a document, Doc gives its text.       *)
(***************************************************************************)
TechStory == <<"T","e","c","h"," ","s","t","o","r","y">>
NoTitleExtracted == <<"N","o"," ","t","i","t","l","e"," ","e","x","t","r","a","c","t","e","d">>

DocNames == {"good", "short_title", "no_content", "placeholder"}

DocTitle(n) ==
    CASE n = "good" -> TechStory
      [] n = "short_title" -> SubSeq(TechStory, 1, 9)
      [] n = "no_content" -> TechStory
      [] n = "placeholder" -> NoTitleExtracted

DocContent(n) ==
    CASE n = "good" -> Rep("c", 100)
      [] n = "short_title" -> Rep("c", 100)
      [] n = "no_content" -> NoneText
      [] n = "placeholder" -> Rep("c", 100)

\* the article_data dict of extract_article_content for document n at url
Doc(url, n) == [url |-> url, title |-> DocTitle(n), content |-> DocContent(n)]

\* what is_valid_article does on each document (it reads the url only for
\* being present), worked out once
Validation ==
    [n \in DocNames |->
        IF is_valid_article_raises(Doc("url", n)) THEN "AttributeError"
        ELSE IF is_valid_article(Doc("url", n)) THEN "True" ELSE "False"]

(***************************************************************************)
(* State.                                                                  *)
(***************************************************************************)
VARIABLES
    articles,           \* table articles: rows [article_id, url, doc, summary]
    articles_id_seq,    \* sequence articles_id_seq
    topics,             \* table topics: rows [topic_id, name]
    topics_id_seq,
    companies,          \* table companies: rows [company_id, name]
    companies_id_seq,
    article_topics,     \* table article_topics: rows <<article_id, topic_id>>
    article_companies,  \* table article_companies: rows <<article_id, company_id>>
    crawl_registry,     \* table crawl_registry; read-only to the crawler
    site,               \* the web: source page -> article links it lists
    sweep,              \* the frame of run_crawl / _process_registry_entry
    single,             \* the frame of crawl_single_url
    session,            \* ContentExtractor.session: the number of the Session object
    last_request_time,  \* ContentExtractor.last_request_time
    now,                \* time.time(), in seconds
    request,            \* the frame of _make_request
    wire,               \* the HTTP requests that left the process: when the last one
                        \* did, and the closest two successive ones came
    extraction,         \* the frame of extract_article_content and of
                        \* extract_articles_from_page
    validation,         \* a call of is_valid_article: its argument and its outcome
    call,               \* a call of one other function on its own: its name,
                        \* its argument and its outcome
    researched,         \* the names llm_client.research_company was called with,
                        \* in the order of the calls
    job_tracker,        \* JobStatusTracker._status of web/job_status.py
    tasks,              \* the coroutines of the web application's event loop:
                        \* background tasks and crawl_single_url handlers
    running             \* the coroutine the event loop is executing, 0 for none

storage == <<articles, articles_id_seq, topics, topics_id_seq, companies,
             companies_id_seq, article_topics, article_companies>>
vars == <<articles, articles_id_seq, topics, topics_id_seq, companies,
          companies_id_seq, article_topics, article_companies, crawl_registry, site,
          sweep, single, session, last_request_time, now, request, wire, extraction,
          validation, call, researched, job_tracker, tasks, running>>
web == <<job_tracker, tasks, running>>
checks == <<validation, call, web>>
fetcher == <<session, last_request_time, now, request, wire, extraction, checks>>
orchestrator == <<storage, crawl_registry, site, sweep, single, researched>>
world == <<crawl_registry, site, fetcher, researched>>

\* rows of table crawl_registry (models.CrawlRegistry)
Registration(url, extract_topics, extract_companies, active) ==
    [url |-> url, extract_topics |-> extract_topics,
     extract_companies |-> extract_companies, active |-> active]

\* an existence check that finds nothing
article_exists_never(url) == FALSE

\* Database.article_exists
article_exists(url) == \E a \in articles : a.url = url

(***************************************************************************)
(* Inputs of the model: what the network and the language model answer.    *)
(***************************************************************************)
\* answers of DatabricksLLMClient.summarize_article ("" after any failure)
Summaries == {"", "summary"}
\* answers of DatabricksLLMClient.extract_topics (names come back stripped)
TopicLists == {<<"", "ai">>}
\* answers of DatabricksLLMClient.extract_companies
CompanyLists == {<<"", "acme">>}

\* all orders in which list(set) can enumerate a set of links
Orderings(S) ==
    {q \in [1..Cardinality(S) -> S] : \A i, j \in 1..Cardinality(S) : q[i] = q[j] => i = j}

\* `if not name.strip(): continue` at the head of the loop over names
RECURSIVE SkipBlank(_)
SkipBlank(ns) == IF ns # <<>> /\ Head(ns) = "" THEN SkipBlank(Tail(ns)) ELSE ns

(***************************************************************************)
(* run_crawl and _process_registry_entry.                                  *)
(***************************************************************************)
EmptySummary ==
    [total_urls |-> 0, new_articles |-> 0, existing_articles |-> 0,
     failed_extractions |-> 0, topics_added |-> 0, companies_added |-> 0,
     errors |-> <<>>]

SweepFrame ==
    [pc |-> "idle", runs |-> 0, results |-> EmptySummary, active_entries |-> <<>>,
     entry_idx |-> 0, article_urls |-> <<>>, url_idx |-> 0, article_data |-> None,
     summary |-> None, article_id |-> NoId, names |-> <<>>, entity_id |-> NoId,
     visited |-> <<>>, started |-> 0, outcomes |-> <<>>, llm |-> {}]

registry_entry == sweep.active_entries[sweep.entry_idx]
article_url == sweep.article_urls[sweep.url_idx]

\* the locals of one iteration of the candidate loop, before the iteration
FreshCandidate(s) ==
    [s EXCEPT !.article_data = None, !.summary = None, !.article_id = NoId,
              !.names = <<>>, !.entity_id = NoId]

\* next iteration of `for registry_entry in active_entries`, or return results
NextEntry(s) ==
    IF s.entry_idx < Len(s.active_entries)
    THEN [FreshCandidate(s) EXCEPT !.pc = "discover", !.entry_idx = @ + 1,
                                   !.article_urls = <<>>, !.url_idx = 0]
    ELSE [FreshCandidate(s) EXCEPT !.pc = "done", !.entry_idx = 0,
                                   !.article_urls = <<>>, !.url_idx = 0]

\* next iteration of `for article_url in article_urls`
NextArticle(s) ==
    IF s.url_idx < Len(s.article_urls)
    THEN [FreshCandidate(s) EXCEPT !.pc = "check", !.url_idx = @ + 1, !.llm = {},
                                   !.started = @ + 1]
    ELSE NextEntry(s)

\* a candidate loop whose handler gives up on the whole sweep
ArticleError_aborts(s, exc) ==
    [s EXCEPT !.pc = "done",
              !.results.errors = Append(@, [msg |-> "Error processing article",
                                            url |-> s.article_urls[s.url_idx], exc |-> exc]),
              !.results.failed_extractions = @ + 1,
              !.outcomes = Append(@, "error")]

\* `except Exception as e` of the candidate loop: recorded, counted, next one
ArticleError(s, exc) ==
    NextArticle([s EXCEPT
        !.results.errors = Append(@, [msg |-> "Error processing article",
                                      url |-> s.article_urls[s.url_idx], exc |-> exc]),
        !.results.failed_extractions = @ + 1,
        !.outcomes = Append(@, "error")])

\* article_exists answered True: counted, `continue`
AlreadyExists(s) ==
    NextArticle([s EXCEPT !.results.existing_articles = @ + 1,
                          !.outcomes = Append(@, "existing")])

\* extract_article_content raised: logged, counted, `continue`
ExtractionFailed(s) ==
    NextArticle([s EXCEPT !.results.failed_extractions = @ + 1,
                          !.outcomes = Append(@, "extraction_raised")])

\* is_valid_article answered False: logged, counted, `continue`
ValidationRejected(s) ==
    NextArticle([s EXCEPT !.results.failed_extractions = @ + 1,
                          !.outcomes = Append(@, "invalid")])

\* run_crawl without its outer handler: the exception leaves run_crawl
CriticalError_propagates(s, exc) == [s EXCEPT !.pc = "raised"]

\* the outer `except Exception as e` of run_crawl: recorded, `return results`
CriticalError(s, exc) ==
    [s EXCEPT !.pc = "done",
              !.results.errors = Append(@, [msg |-> "Critical error",
                                            url |-> None, exc |-> exc])]

\* a sweep that takes every registration, active or not
active_entries_unfiltered(registry_entries) == registry_entries

\* `[entry for entry in registry_entries if entry.active]`
active_entries(registry_entries) == SelectSeq(registry_entries, LAMBDA e : e.active)

StartSweep ==
    /\ sweep.pc \in {"idle", "done"}
    /\ sweep.runs < MaxSweeps
    /\ \E db_ok \in BOOLEAN :
        LET fresh == [SweepFrame EXCEPT !.runs = sweep.runs + 1]
            active == active_entries(crawl_registry)
        IN  sweep' =
                IF ~db_ok THEN CriticalError(fresh, "IOException")
                ELSE NextEntry([fresh EXCEPT !.active_entries = active,
                                             !.results.total_urls = Len(active)])
    /\ UNCHANGED <<storage, world, single>>

Discover ==
    /\ sweep.pc = "discover"
    /\ \E fetched \in BOOLEAN :
         \E links \in (IF fetched THEN Orderings(site[registry_entry.url])
                                  ELSE {<<registry_entry.url>>}) :
            LET s == [sweep EXCEPT !.article_urls = links, !.url_idx = 0,
                                   !.visited = Append(@, registry_entry.url)]
            IN  sweep' = NextArticle(s)
    /\ UNCHANGED <<storage, world, single>>

SweepCheck ==
    /\ sweep.pc = "check"
    /\ \E db_ok \in BOOLEAN :
        IF ~db_ok THEN sweep' = ArticleError(sweep, "IOException")
        ELSE IF article_exists(article_url)
        THEN sweep' = AlreadyExists(sweep)
        ELSE \E out \in {"raise"} \cup DocNames :
            IF out = "raise" THEN sweep' = ExtractionFailed(sweep)
            ELSE IF Validation[out] = "AttributeError"
            THEN sweep' = ArticleError(sweep, "AttributeError")
            ELSE IF Validation[out] = "False"
            THEN sweep' = ValidationRejected(sweep)
            ELSE sweep' = [sweep EXCEPT !.article_data = out,
                              !.pc = IF Truthy(DocContent(out)) THEN "summarize"
                                                              ELSE "add_article"]
    /\ UNCHANGED <<storage, world, single>>

(***************************************************************************)
(* Database: the constraints of the schema and the rows an INSERT adds.    *)
(***************************************************************************)
\* the articles table without its UNIQUE constraint
articles_url_unique_dropped(url) == TRUE

\* articles.url VARCHAR NOT NULL UNIQUE: the INSERT of add_article is accepted
articles_url_unique(url) == \A a \in articles : a.url # url

\* topics.name VARCHAR NOT NULL UNIQUE
topics_name_unique(name) == \A t \in topics : t.name # name

\* companies.name VARCHAR NOT NULL UNIQUE
companies_name_unique(name) == \A c \in companies : c.name # name

\* Database.get_topic_by_name / get_company_by_name: the id, or None
get_topic_by_name(name) ==
    IF \E t \in topics : t.name = name
    THEN (CHOOSE t \in topics : t.name = name).topic_id ELSE NoId

\* a lookup that never finds the company
get_company_by_name_misses(name) == NoId

get_company_by_name(name) ==
    IF \E c \in companies : c.name = name
    THEN (CHOOSE c \in companies : c.name = name).company_id ELSE NoId

\* an INSERT that leaves its row as the only one of the table
add_article_replaces(url, doc, summary) ==
    {[article_id |-> articles_id_seq, url |-> url, doc |-> doc, summary |-> summary]}

\* Database.add_article: the table after the INSERT of one row, whose
\* article_id is the next value of articles_id_seq
add_article(url, doc, summary) ==
    articles \cup
        {[article_id |-> articles_id_seq, url |-> url, doc |-> doc, summary |-> summary]}

\* link_article_topic taking the row out again when it is already there
link_article_topic_toggles(article_id, topic_id, db_ok) ==
    article_topics' = IF <<article_id, topic_id>> \in article_topics
                      THEN article_topics \ {<<article_id, topic_id>>}
                      ELSE article_topics \cup {<<article_id, topic_id>>}

\* Database.link_article_topic: INSERT under PRIMARY KEY (article_id, topic_id);
\* any exception is swallowed
link_article_topic(article_id, topic_id, db_ok) ==
    article_topics' = IF db_ok THEN article_topics \cup {<<article_id, topic_id>>}
                               ELSE article_topics

link_article_company(article_id, company_id, db_ok) ==
    article_companies' = IF db_ok THEN article_companies \cup {<<article_id, company_id>>}
                                  ELSE article_companies

(***************************************************************************)
(* _process_registry_entry, from the summary to the end of the candidate.  *)
(***************************************************************************)
\* after _process_topics: `if registry_entry.extract_companies and content`
SweepAfterTopics(s) ==
    IF s.active_entries[s.entry_idx].extract_companies /\ Truthy(DocContent(s.article_data))
    THEN [s EXCEPT !.pc = "extract_companies", !.names = <<>>, !.entity_id = NoId]
    ELSE NextArticle(s)

\* _process_topics called whatever the registration asks for
SweepAfterInsert_ungated(s) ==
    IF Truthy(DocContent(s.article_data))
    THEN [s EXCEPT !.pc = "extract_topics"]
    ELSE SweepAfterTopics(s)

\* after add_article: `if registry_entry.extract_topics and content`
SweepAfterInsert(s) ==
    IF s.active_entries[s.entry_idx].extract_topics /\ Truthy(DocContent(s.article_data))
    THEN [s EXCEPT !.pc = "extract_topics"]
    ELSE SweepAfterTopics(s)

\* _process_topics without its handler: the candidate loop catches instead
TopicsError_propagates(s) == ArticleError(s, "AttributeError")

\* `except Exception as e` of _process_topics: logged, the call returns
TopicsError(s) == SweepAfterTopics(s)

\* _process_companies without its handler: the candidate loop catches instead
CompaniesError_propagates(s) == ArticleError(s, "AttributeError")

\* `except Exception as e` of _process_companies: logged, the call returns
CompaniesError(s) == NextArticle(s)

\* the answer stored as it came
SummaryOrFallback_raw(answer) == answer

\* the summary stored with the article
SummaryOrFallback(answer) == IF answer # "" THEN answer ELSE "Summary generation failed"

\* head of `for topic_name in topics`
SweepTopicLoop(s) ==
    LET ns == SkipBlank(s.names)
    IN  IF ns = <<>> THEN SweepAfterTopics(s)
        ELSE [s EXCEPT !.names = ns, !.entity_id = NoId, !.pc = "get_topic"]

\* head of `for company_name in companies`
SweepCompanyLoop(s) ==
    LET ns == SkipBlank(s.names)
    IN  IF ns = <<>> THEN NextArticle(s)
        ELSE [s EXCEPT !.names = ns, !.entity_id = NoId, !.pc = "get_company"]

SweepSummarize ==
    /\ sweep.pc = "summarize"
    /\ \E answer \in Summaries :
        sweep' = [sweep EXCEPT
            !.summary = SummaryOrFallback(answer),
            !.llm = @ \cup {"summarize"},
            !.pc = "add_article"]
    /\ UNCHANGED <<storage, world, single>>

SweepAddArticle ==
    /\ sweep.pc = "add_article"
    /\ \E db_ok \in BOOLEAN :
        IF ~db_ok
        THEN /\ sweep' = ArticleError(sweep, "IOException")
             /\ UNCHANGED storage
        ELSE IF ~articles_url_unique(article_url)
        THEN /\ sweep' = ArticleError(sweep, "Duplicate key url")
             /\ UNCHANGED storage
        ELSE /\ articles' = add_article(article_url, sweep.article_data, sweep.summary)
             /\ articles_id_seq' = articles_id_seq + 1
             /\ sweep' = SweepAfterInsert([sweep EXCEPT
                    !.article_id = articles_id_seq,
                    !.results.new_articles = @ + 1,
                    !.outcomes = Append(@, "new")])
             /\ UNCHANGED <<topics, topics_id_seq, companies, companies_id_seq,
                            article_topics, article_companies>>
    /\ UNCHANGED <<world, single>>

(***************************************************************************)
(* _process_topics: every exception is logged and swallowed.               *)
(***************************************************************************)
SweepExtractTopics ==
    /\ sweep.pc = "extract_topics"
    /\ LET s == [sweep EXCEPT !.llm = @ \cup {"extract_topics"}]
       IN  \/ sweep' = TopicsError(s)
           \/ \E out \in TopicLists : sweep' = SweepTopicLoop([s EXCEPT !.names = out])
    /\ UNCHANGED <<storage, world, single>>

SweepGetTopic ==
    /\ sweep.pc = "get_topic"
    /\ \E db_ok \in BOOLEAN :
        LET topic_id == get_topic_by_name(Head(sweep.names))
        IN  sweep' = IF ~db_ok THEN TopicsError(sweep)
                     ELSE IF topic_id = NoId THEN [sweep EXCEPT !.pc = "add_topic"]
                     ELSE [sweep EXCEPT !.entity_id = topic_id, !.pc = "link_topic"]
    /\ UNCHANGED <<storage, world, single>>

SweepAddTopic ==
    /\ sweep.pc = "add_topic"
    /\ \E db_ok \in BOOLEAN :
        IF ~db_ok \/ ~topics_name_unique(Head(sweep.names))
        THEN /\ sweep' = TopicsError(sweep)
             /\ UNCHANGED storage
        ELSE /\ topics' = topics \cup {[topic_id |-> topics_id_seq, name |-> Head(sweep.names)]}
             /\ topics_id_seq' = topics_id_seq + 1
             /\ sweep' = [sweep EXCEPT !.entity_id = topics_id_seq,
                                       !.results.topics_added = @ + 1,
                                       !.pc = "link_topic"]
             /\ UNCHANGED <<articles, articles_id_seq, companies, companies_id_seq,
                            article_topics, article_companies>>
    /\ UNCHANGED <<world, single>>

SweepLinkTopic ==
    /\ sweep.pc = "link_topic"
    /\ \E db_ok \in BOOLEAN :
        link_article_topic(sweep.article_id, sweep.entity_id, db_ok)
    /\ sweep' = SweepTopicLoop([sweep EXCEPT !.names = Tail(@)])
    /\ UNCHANGED <<articles, articles_id_seq, topics, topics_id_seq, companies,
                   companies_id_seq, article_companies, world, single>>

(***************************************************************************)
(* _process_companies: every exception is logged and swallowed.            *)
(***************************************************************************)
SweepExtractCompanies ==
    /\ sweep.pc = "extract_companies"
    /\ LET s == [sweep EXCEPT !.llm = @ \cup {"extract_companies"}]
       IN  \/ sweep' = CompaniesError(s)
           \/ \E out \in CompanyLists : sweep' = SweepCompanyLoop([s EXCEPT !.names = out])
    /\ UNCHANGED <<storage, world, single>>

SweepGetCompany ==
    /\ sweep.pc = "get_company"
    /\ \E db_ok \in BOOLEAN :
        LET company_id == get_company_by_name(Head(sweep.names))
        IN  sweep' = IF ~db_ok THEN CompaniesError(sweep)
                     ELSE IF company_id = NoId THEN [sweep EXCEPT !.pc = "research_company"]
                     ELSE [sweep EXCEPT !.entity_id = company_id, !.pc = "link_company"]
    /\ UNCHANGED <<storage, world, single>>

SweepResearchCompany ==
    /\ sweep.pc = "research_company"
    /\ \E out \in {"raise", "info"} :
        LET s == [sweep EXCEPT !.llm = @ \cup {"research_company"}]
        IN  sweep' = IF out = "raise" THEN CompaniesError(s)
                     ELSE [s EXCEPT !.pc = "add_company"]
    /\ researched' = Append(researched, Head(sweep.names))
    /\ UNCHANGED <<storage, crawl_registry, site, fetcher, single>>

SweepAddCompany ==
    /\ sweep.pc = "add_company"
    /\ \E db_ok \in BOOLEAN :
        IF ~db_ok \/ ~companies_name_unique(Head(sweep.names))
        THEN /\ sweep' = CompaniesError(sweep)
             /\ UNCHANGED storage
        ELSE /\ companies' = companies \cup
                    {[company_id |-> companies_id_seq, name |-> Head(sweep.names)]}
             /\ companies_id_seq' = companies_id_seq + 1
             /\ sweep' = [sweep EXCEPT !.entity_id = companies_id_seq,
                                       !.results.companies_added = @ + 1,
                                       !.pc = "link_company"]
             /\ UNCHANGED <<articles, articles_id_seq, topics, topics_id_seq,
                            article_topics, article_companies>>
    /\ UNCHANGED <<world, single>>

SweepLinkCompany ==
    /\ sweep.pc = "link_company"
    /\ \E db_ok \in BOOLEAN :
        link_article_company(sweep.article_id, sweep.entity_id, db_ok)
    /\ sweep' = SweepCompanyLoop([sweep EXCEPT !.names = Tail(@)])
    /\ UNCHANGED <<articles, articles_id_seq, topics, topics_id_seq, companies,
                   companies_id_seq, article_topics, world, single>>

(***************************************************************************)
(* crawl_single_url.                                                       *)
(***************************************************************************)
SingleUrls == {"a1"}

SingleResults(url) ==
    [url |-> url, success |-> FALSE, article_id |-> NoId, topics |-> <<>>,
     companies |-> <<>>, error |-> None]

SingleFrame ==
    [pc |-> "idle", calls |-> 0, extract_topics |-> FALSE, extract_companies |-> FALSE,
     results |-> SingleResults(None), article_data |-> None, summary |-> None,
     names |-> <<>>, entity_id |-> NoId, llm |-> {}, prev |-> [url |-> None, success |-> FALSE]]

\* `return results`
SingleReturn(s) ==
    [s EXCEPT !.pc = "done", !.article_data = None, !.summary = None,
              !.names = <<>>, !.entity_id = NoId]

\* an early `return results` with results['error'] set, and the outer
\* `except Exception as e: results['error'] = str(e)`
SingleError(s, error) == SingleReturn([s EXCEPT !.results.error = error])

\* after the topics: `if extract_companies and article_data['content']`
SingleAfterTopics(s) ==
    IF s.extract_companies /\ Truthy(DocContent(s.article_data))
    THEN [s EXCEPT !.pc = "extract_companies", !.names = <<>>, !.entity_id = NoId]
    ELSE SingleReturn(s)

\* after add_article: `if extract_topics and article_data['content']`
SingleAfterInsert(s) ==
    IF s.extract_topics /\ Truthy(DocContent(s.article_data))
    THEN [s EXCEPT !.pc = "extract_topics"]
    ELSE SingleAfterTopics(s)

SingleTopicLoop(s) ==
    LET ns == SkipBlank(s.names)
    IN  IF ns = <<>> THEN SingleAfterTopics(s)
        ELSE [s EXCEPT !.names = ns, !.entity_id = NoId, !.pc = "get_topic"]

SingleCompanyLoop(s) ==
    LET ns == SkipBlank(s.names)
    IN  IF ns = <<>> THEN SingleReturn(s)
        ELSE [s EXCEPT !.names = ns, !.entity_id = NoId, !.pc = "get_company"]

StartSingle ==
    /\ single.pc \in {"idle", "done"}
    /\ single.calls < MaxSingleCalls
    /\ \E url \in SingleUrls, extract_topics \in BOOLEAN, extract_companies \in BOOLEAN :
        single' = [SingleFrame EXCEPT
            !.pc = "check", !.calls = single.calls + 1,
            !.extract_topics = extract_topics, !.extract_companies = extract_companies,
            !.results = SingleResults(url),
            !.prev = [url |-> single.results.url, success |-> single.results.success]]
    /\ UNCHANGED <<storage, world, sweep>>

SingleCheck ==
    /\ single.pc = "check"
    /\ \E db_ok \in BOOLEAN :
        LET url == single.results.url
        IN  IF ~db_ok THEN single' = SingleError(single, "IOException")
            ELSE IF article_exists(url)
            THEN single' = SingleError(single, "Article already exists")
            ELSE \E out \in {"raise"} \cup DocNames :
                IF out = "raise"
                THEN single' = SingleError(single, "Content extraction failed")
                ELSE IF Validation[out] = "AttributeError"
                THEN single' = SingleError(single, "AttributeError")
                ELSE IF Validation[out] = "False"
                THEN single' = SingleError(single, "Invalid or insufficient article content")
                ELSE single' = [single EXCEPT !.article_data = out,
                                  !.pc = IF Truthy(DocContent(out)) THEN "summarize"
                                                                  ELSE "add_article"]
    /\ UNCHANGED <<storage, world, sweep>>

SingleSummarize ==
    /\ single.pc = "summarize"
    /\ \E answer \in Summaries :
        single' = [single EXCEPT
            !.summary = SummaryOrFallback(answer),
            !.llm = @ \cup {"summarize"},
            !.pc = "add_article"]
    /\ UNCHANGED <<storage, world, sweep>>

SingleAddArticle ==
    /\ single.pc = "add_article"
    /\ \E db_ok \in BOOLEAN :
        IF ~db_ok
        THEN /\ single' = SingleError(single, "IOException")
             /\ UNCHANGED storage
        ELSE IF ~articles_url_unique(single.results.url)
        THEN /\ single' = SingleError(single, "Duplicate key url")
             /\ UNCHANGED storage
        ELSE /\ articles' = add_article(single.results.url, single.article_data,
                                        single.summary)
             /\ articles_id_seq' = articles_id_seq + 1
             /\ single' = SingleAfterInsert([single EXCEPT
                    !.results.article_id = articles_id_seq,
                    !.results.success = TRUE])
             /\ UNCHANGED <<topics, topics_id_seq, companies, companies_id_seq,
                            article_topics, article_companies>>
    /\ UNCHANGED <<world, sweep>>

SingleExtractTopics ==
    /\ single.pc = "extract_topics"
    /\ LET s == [single EXCEPT !.llm = @ \cup {"extract_topics"}]
       IN  \/ single' = SingleError(s, "AttributeError")
           \/ \E out \in TopicLists : single' = SingleTopicLoop([s EXCEPT !.names = out])
    /\ UNCHANGED <<storage, world, sweep>>

SingleGetTopic ==
    /\ single.pc = "get_topic"
    /\ \E db_ok \in BOOLEAN :
        LET topic_id == get_topic_by_name(Head(single.names))
        IN  single' = IF ~db_ok THEN SingleError(single, "IOException")
                      ELSE IF topic_id = NoId THEN [single EXCEPT !.pc = "add_topic"]
                      ELSE [single EXCEPT !.entity_id = topic_id, !.pc = "link_topic"]
    /\ UNCHANGED <<storage, world, sweep>>

SingleAddTopic ==
    /\ single.pc = "add_topic"
    /\ \E db_ok \in BOOLEAN :
        IF ~db_ok
        THEN /\ single' = SingleError(single, "IOException")
             /\ UNCHANGED storage
        ELSE IF ~topics_name_unique(Head(single.names))
        THEN /\ single' = SingleError(single, "Duplicate key name")
             /\ UNCHANGED storage
        ELSE /\ topics' = topics \cup {[topic_id |-> topics_id_seq, name |-> Head(single.names)]}
             /\ topics_id_seq' = topics_id_seq + 1
             /\ single' = [single EXCEPT !.entity_id = topics_id_seq, !.pc = "link_topic"]
             /\ UNCHANGED <<articles, articles_id_seq, companies, companies_id_seq,
                            article_topics, article_companies>>
    /\ UNCHANGED <<world, sweep>>

SingleLinkTopic ==
    /\ single.pc = "link_topic"
    /\ \E db_ok \in BOOLEAN :
        link_article_topic(single.results.article_id, single.entity_id, db_ok)
    /\ single' = SingleTopicLoop([single EXCEPT
            !.results.topics = Append(@, Head(single.names)),
            !.names = Tail(@)])
    /\ UNCHANGED <<articles, articles_id_seq, topics, topics_id_seq, companies,
                   companies_id_seq, article_companies, world, sweep>>

SingleExtractCompanies ==
    /\ single.pc = "extract_companies"
    /\ LET s == [single EXCEPT !.llm = @ \cup {"extract_companies"}]
       IN  \/ single' = SingleError(s, "AttributeError")
           \/ \E out \in CompanyLists : single' = SingleCompanyLoop([s EXCEPT !.names = out])
    /\ UNCHANGED <<storage, world, sweep>>

SingleGetCompany ==
    /\ single.pc = "get_company"
    /\ \E db_ok \in BOOLEAN :
        LET company_id == get_company_by_name(Head(single.names))
        IN  single' = IF ~db_ok THEN SingleError(single, "IOException")
                      ELSE IF company_id = NoId THEN [single EXCEPT !.pc = "research_company"]
                      ELSE [single EXCEPT !.entity_id = company_id, !.pc = "link_company"]
    /\ UNCHANGED <<storage, world, sweep>>

SingleResearchCompany ==
    /\ single.pc = "research_company"
    /\ \E out \in {"raise", "info"} :
        LET s == [single EXCEPT !.llm = @ \cup {"research_company"}]
        IN  single' = IF out = "raise" THEN SingleError(s, "AttributeError")
                      ELSE [s EXCEPT !.pc = "add_company"]
    /\ researched' = Append(researched, Head(single.names))
    /\ UNCHANGED <<storage, crawl_registry, site, fetcher, sweep>>

SingleAddCompany ==
    /\ single.pc = "add_company"
    /\ \E db_ok \in BOOLEAN :
        IF ~db_ok
        THEN /\ single' = SingleError(single, "IOException")
             /\ UNCHANGED storage
        ELSE IF ~companies_name_unique(Head(single.names))
        THEN /\ single' = SingleError(single, "Duplicate key name")
             /\ UNCHANGED storage
        ELSE /\ companies' = companies \cup
                    {[company_id |-> companies_id_seq, name |-> Head(single.names)]}
             /\ companies_id_seq' = companies_id_seq + 1
             /\ single' = [single EXCEPT !.entity_id = companies_id_seq, !.pc = "link_company"]
             /\ UNCHANGED <<articles, articles_id_seq, topics, topics_id_seq,
                            article_topics, article_companies>>
    /\ UNCHANGED <<world, sweep>>

SingleLinkCompany ==
    /\ single.pc = "link_company"
    /\ \E db_ok \in BOOLEAN :
        link_article_company(single.results.article_id, single.entity_id, db_ok)
    /\ single' = SingleCompanyLoop([single EXCEPT
            !.results.companies = Append(@, Head(single.names)),
            !.names = Tail(@)])
    /\ UNCHANGED <<articles, articles_id_seq, topics, topics_id_seq, companies,
                   companies_id_seq, article_topics, world, sweep>>

(***************************************************************************)
(* ContentExtractor._make_request.  The server is a script: every get is   *)
(* answered by a status code or fails below HTTP.                          *)
(***************************************************************************)
min_delay == 1
max_delay == 3
retry_attempts == 3

\* time.time() when the extractor is built: long after time 0
Epoch == 100

\* the ends of random.uniform(3.0, 8.0), in whole seconds
RetryBases == {3, 8}
\* time passing between two calls of _make_request
Elapsed == {0, 1}
Statuses == {"200", "403", "500"}

ExtractionFrame ==
    [pc |-> "idle", op |-> None, url |-> None, via |-> None,
     article_data |-> [url |-> None, title |-> <<[c |-> None, n |-> 1]>>,
                       content |-> <<[c |-> None, n |-> 1]>>],
     article_urls |-> <<>>]

RequestFrame ==
    [pc |-> "idle", calls |-> 0, response |-> None, attempt |-> 0, requests |-> 0,
     old_session |-> 0, answers |-> <<>>, delays |-> <<>>, waited |-> 0]

\* a request that returns whatever response it holds
RaiseForStatus_skipped(r) == [r EXCEPT !.pc = "returned"]

\* response.raise_for_status() and `return response`; the HTTPError is a
\* RequestException, logged and raised again
RaiseForStatus(r) ==
    [r EXCEPT !.pc = IF r.response = "200" THEN "returned" ELSE "raised"]

\* a loop that stops one attempt early
MoreAttempts_one_short(attempt) == attempt + 2 < retry_attempts

\* `for attempt in range(retry_attempts)` has another value after attempt
MoreAttempts(attempt) == attempt + 1 < retry_attempts

\* the head of the retry loop after an attempt that did not break out of it
NextAttempt(r) ==
    IF MoreAttempts(r.attempt) THEN [r EXCEPT !.pc = "sleep", !.attempt = @ + 1]
    ELSE RaiseForStatus(r)

\* an HTTP request leaves the process at time t
Sent(w, t) ==
    [last |-> t,
     closest |-> IF t - w.last < w.closest THEN t - w.last ELSE w.closest]

\* the rate limit at the head of _make_request
EnterRequest ==
    /\ request.pc \in {"idle", "returned", "raised"}
    /\ request.calls < MaxFetches
    /\ \E elapsed \in Elapsed :
        LET current_time == now + elapsed
            time_since_last == current_time - last_request_time
        IN  \E delay \in {min_delay, max_delay} :
              LET sleep == IF time_since_last < min_delay THEN delay ELSE 0
              IN  /\ now' = current_time + sleep
                  /\ request' = [RequestFrame EXCEPT !.pc = "get",
                                                     !.calls = request.calls + 1,
                                                     !.waited = sleep]

\* _make_request called on its own
StartRequest ==
    /\ EnterRequest
    /\ UNCHANGED <<orchestrator, checks, session, last_request_time, wire, extraction>>

\* the first self.session.get and what follows it when the answer is no 403
FirstGet ==
    /\ request.pc = "get"
    /\ \/ /\ request' = [request EXCEPT !.pc = "raised", !.requests = @ + 1,
                                        !.answers = Append(@, "error")]
          /\ UNCHANGED last_request_time
       \/ \E status \in Statuses :
            LET r == [request EXCEPT !.response = status, !.requests = @ + 1,
                                     !.answers = Append(@, status)]
            IN  /\ last_request_time' = now
                /\ request' = IF status = "403"
                              THEN [r EXCEPT !.pc = "sleep", !.attempt = 0]
                              ELSE RaiseForStatus(r)
    /\ wire' = Sent(wire, now)
    /\ UNCHANGED <<orchestrator, checks, session, now, extraction>>

\* one retry: the progressive delay and the fresh session
RetrySleep ==
    /\ request.pc = "sleep"
    /\ \E base \in RetryBases :
        LET delay == base * (request.attempt + 1)
        IN  /\ now' = now + delay
            /\ request' = [request EXCEPT !.pc = "retry", !.old_session = session,
                                          !.delays = Append(@, delay)]
    /\ session' = session + 1
    /\ UNCHANGED <<orchestrator, checks, last_request_time, wire, extraction>>

\* one retry: the get on the fresh session
RetryGet ==
    /\ request.pc = "retry"
    /\ \/ LET r == [request EXCEPT !.requests = @ + 1, !.answers = Append(@, "error")]
          IN  IF request.attempt = retry_attempts - 1
              THEN /\ session' = request.old_session
                   /\ request' = RaiseForStatus(r)
                   /\ UNCHANGED last_request_time
              ELSE /\ request' = NextAttempt(r)
                   /\ UNCHANGED <<session, last_request_time>>
       \/ \E status \in Statuses :
            LET r == [request EXCEPT !.response = status, !.requests = @ + 1,
                                     !.answers = Append(@, status)]
            IN  /\ last_request_time' = now
                /\ request' = IF status # "403" THEN RaiseForStatus(r)
                              ELSE NextAttempt(r)
                /\ UNCHANGED session
    /\ wire' = Sent(wire, now)
    /\ UNCHANGED <<orchestrator, checks, now, extraction>>

(***************************************************************************)
(* ContentExtractor.extract_article_content.  A page text can be long: it  *)
(* is a sequence of runs, each one character repeated n >= 1 times.        *)
(***************************************************************************)
MaxContentLen == 50000

Run(c, n) == [c |-> c, n |-> n]
\* a short str as runs of one
Chars(s) == [i \in DOMAIN s |-> Run(s[i], 1)]
\* None where a text is expected
NoneRuns == <<Run(None, 1)>>

\* the truth value of a text or None
TruthyRuns(t) == t # NoneRuns /\ t # <<>>

\* len(t)
RECURSIVE TextLen(_)
TextLen(t) == IF t = <<>> THEN 0 ELSE Head(t).n + TextLen(Tail(t))

\* t[:k]
RECURSIVE Take(_, _)
Take(t, k) ==
    IF t = <<>> \/ k <= 0 THEN <<>>
    ELSE IF Head(t).n <= k THEN <<Head(t)>> \o Take(Tail(t), k - Head(t).n)
    ELSE <<Run(Head(t).c, k)>>

\* re.sub(r'\s+', ' ', t)
RECURSIVE CollapseWhitespace(_)
CollapseWhitespace(t) ==
    IF t = <<>> THEN <<>>
    ELSE LET rest == CollapseWhitespace(Tail(t))
         IN  IF Head(t).c \notin Whitespace THEN <<Head(t)>> \o rest
             ELSE IF rest # <<>> /\ Head(rest) = Run(" ", 1) THEN rest
             ELSE <<Run(" ", 1)>> \o rest

\* t.strip()
RECURSIVE LStripRuns(_)
LStripRuns(t) ==
    IF t # <<>> /\ Head(t).c \in Whitespace THEN LStripRuns(Tail(t)) ELSE t
RECURSIVE RStripRuns(_)
RStripRuns(t) ==
    IF t # <<>> /\ t[Len(t)].c \in Whitespace
    THEN RStripRuns(SubSeq(t, 1, Len(t) - 1)) ELSE t
StripRuns(t) == RStripRuns(LStripRuns(t))

\* `if article_data['content']:` the whitespace clean-up and the length limit
CleanContent(content) ==
    IF ~TruthyRuns(content) THEN content
    ELSE LET cleaned == StripRuns(CollapseWhitespace(content))
         IN  IF TextLen(cleaned) > MaxContentLen
             THEN Take(cleaned, MaxContentLen) \o Chars(<<".", ".", ".">>)
             ELSE cleaned

\* the path of the urls handed to extract_article_content
ExtractUrls == {"a1", "p1"}
UrlPath(url) ==
    IF url = "a1" THEN <<"/", "n", "/", "t", "e", "c", "h", "-", "s", "t", "o", "r", "y">>
    ELSE <<"/">>

\* path.split('/')[-1]
RECURSIVE LastSegment(_)
LastSegment(path) ==
    IF path = <<>> \/ path[Len(path)] = "/" THEN <<>>
    ELSE Append(LastSegment(SubSeq(path, 1, Len(path) - 1)), path[Len(path)])

\* str.replace(a, b) for single characters
ReplaceChar(s, a, b) == [i \in DOMAIN s |-> IF s[i] = a THEN b ELSE s[i]]

\* str.upper() on one character
UpperChar(c) ==
    IF \E i \in 1..26 : LowerCase[i] = c
    THEN UpperCase[CHOOSE i \in 1..26 : LowerCase[i] = c]
    ELSE c

IsLetter(c) == \E i \in 1..26 : LowerCase[i] = c \/ UpperCase[i] = c

\* str.title()
TitleCase(s) ==
    [i \in DOMAIN s |-> IF i = 1 \/ ~IsLetter(s[i - 1]) THEN UpperChar(s[i])
                        ELSE LowerChar(s[i])]

UntitledArticle == <<"U", "n", "t", "i", "t", "l", "e", "d", " ",
                     "A", "r", "t", "i", "c", "l", "e">>
NoContentExtracted == <<"N", "o", " ", "c", "o", "n", "t", "e", "n", "t", " ",
                        "e", "x", "t", "r", "a", "c", "t", "e", "d">>

\* `if not article_data['title']:` a title made of the url, or the stock one
TitleFromUrl(url) ==
    LET title == TitleCase(ReplaceChar(ReplaceChar(LastSegment(UrlPath(url)),
                                                   "-", " "), "_", " "))
    IN  IF title # <<>> THEN Chars(title) ELSE Chars(UntitledArticle)

\* what the libraries can find in a page
Headline == Chars(TechStory)
Words == <<Run("c", 60), Run(" ", 3), Run("c", 60)>>
BodyTexts == {Words, <<Run(" ", 2)>>, <<Run("c", 2 * MaxContentLen)>>}
\* trafilatura.extract
TrafilaturaOutputs == {NoneRuns} \cup BodyTexts
\* NewspaperArticle.parse: it raises, or leaves title and text ('' when not found)
NewspaperOutputs ==
    {[raises |-> TRUE, title |-> <<>>, text |-> <<>>]}
    \cup {[raises |-> FALSE, title |-> t, text |-> x] :
            t \in {<<>>, Headline}, x \in {<<>>} \cup BodyTexts}
\* soup.select_one(...).get_text().strip(), None when no selector matches
SoupOutputs ==
    {[title |-> t, content |-> x] :
        t \in {NoneRuns, <<>>, Headline}, x \in {NoneRuns, <<>>, Words}}

\* lines 257-358: the record made of the html of a response
ExtractFromHtml(url, traf, np, soup) ==
    LET content0 == IF TruthyRuns(traf) THEN traf ELSE NoneRuns
        title1 == IF ~np.raises /\ TruthyRuns(np.title) THEN np.title ELSE NoneRuns
        content1 == IF ~np.raises /\ ~TruthyRuns(content0) /\ TruthyRuns(np.text)
                    THEN np.text ELSE content0
        manual == ~TruthyRuns(title1) /\ ~TruthyRuns(content1)
        title2 == IF manual /\ soup.title # NoneRuns THEN soup.title ELSE title1
        content2 == IF manual /\ soup.content # NoneRuns THEN soup.content ELSE content1
    IN  [url |-> url,
         title |-> IF TruthyRuns(title2) THEN title2 ELSE TitleFromUrl(url),
         content |-> CleanContent(content2)]

\* every record the html of some page can give, worked out once
HtmlRecords ==
    [url \in ExtractUrls |->
        {ExtractFromHtml(url, traf, np, soup) :
            traf \in TrafilaturaOutputs, np \in NewspaperOutputs, soup \in SoupOutputs}]

\* lines 374-382: the record made of a native download, when it found anything
ExtractFromDownload(url, np) ==
    [url |-> url,
     title |-> IF TruthyRuns(np.title) THEN np.title ELSE Chars(NoTitleExtracted),
     content |-> IF TruthyRuns(np.text) THEN np.text ELSE Chars(NoContentExtracted)]

\* every outcome of the native download, worked out once: a record, or the
\* exception of line 390
DownloadOutcomes ==
    [url \in ExtractUrls |->
        {IF ~np.raises /\ (TruthyRuns(np.title) \/ TruthyRuns(np.text))
         THEN [raises |-> FALSE, article_data |-> ExtractFromDownload(url, np)]
         ELSE [raises |-> TRUE, article_data |-> ExtractionFrame.article_data] :
            np \in NewspaperOutputs}]

\* the ends of random.uniform(2.0, 5.0), in whole seconds
FallbackWaits == {2, 5}

\* the <a href> of a page: where it points, whether one of the selectors
\* matches it, whether it stays on the host of the page, and what
\* _is_likely_article_url says of it
Anchor(url, selected, same_host, likely) ==
    [url |-> url, selected |-> selected, same_host |-> same_host, likely |-> likely]
DiscoverUrls == {"p1", "p2", "p4"}
Anchors(page) ==
    CASE page = "p1" -> {Anchor("a1", TRUE, TRUE, TRUE), Anchor("a2", TRUE, FALSE, TRUE),
                         Anchor("about", TRUE, TRUE, FALSE), Anchor("a3", FALSE, TRUE, TRUE)}
      [] page = "p4" -> {Anchor("a4", FALSE, TRUE, TRUE), Anchor("a5", FALSE, FALSE, TRUE),
                         Anchor("login", FALSE, TRUE, FALSE)}
      [] OTHER -> {Anchor("terms", TRUE, TRUE, FALSE), Anchor("a6", FALSE, FALSE, TRUE)}

\* the selector pass
SelectorPass(anchors) == {a.url : a \in {x \in anchors : x.selected /\ x.likely}}
\* `if not article_urls:` the links that stay on the host
SameHostPass(anchors) == {a.url : a \in {x \in anchors : x.same_host /\ x.likely}}
\* the set article_urls at `return list(article_urls)`
DiscoveredLinks(anchors) ==
    IF SelectorPass(anchors) # {} THEN SelectorPass(anchors) ELSE SameHostPass(anchors)

\* the `except Exception` of extract_articles_from_page giving up the list
DiscoveryFallback_nothing(url) == <<>>

\* `return [url]` of the `except Exception` of extract_articles_from_page
DiscoveryFallback(url) == <<url>>

\* extract_article_content(url) up to its call of _make_request
CallExtractContent ==
    /\ extraction.pc \in {"idle", "returned", "raised"}
    /\ \E url \in ExtractUrls :
        extraction' = [ExtractionFrame EXCEPT !.pc = "request", !.op = "content",
                                              !.url = url]
    /\ EnterRequest
    /\ UNCHANGED <<orchestrator, checks, session, last_request_time, wire>>

\* extract_articles_from_page(url) up to its call of _make_request
CallDiscover ==
    /\ extraction.pc \in {"idle", "returned", "raised"}
    /\ \E url \in DiscoverUrls :
        extraction' = [ExtractionFrame EXCEPT !.pc = "request", !.op = "links",
                                              !.url = url]
    /\ EnterRequest
    /\ UNCHANGED <<orchestrator, checks, session, last_request_time, wire>>

\* extract_article_content after _make_request: the strategies on the html, or
\* the `except Exception` of line 360
ParseContent ==
    /\ extraction.pc = "request" /\ extraction.op = "content"
    /\ request.pc \in {"returned", "raised"}
    /\ \/ extraction' = [extraction EXCEPT !.pc = "fallback"]
       \/ /\ request.pc = "returned"
          /\ \E data \in HtmlRecords[extraction.url] :
                extraction' = [extraction EXCEPT !.pc = "returned", !.via = "html",
                                                 !.article_data = data]
    /\ UNCHANGED <<orchestrator, checks, session, last_request_time, now, request, wire>>

\* the fallback of lines 365-390: wait, download with newspaper3k, parse
NativeDownload ==
    /\ extraction.pc = "fallback"
    /\ \E wait \in FallbackWaits :
        /\ now' = now + wait
        /\ wire' = Sent(wire, now + wait)
    /\ \E out \in DownloadOutcomes[extraction.url] :
        extraction' =
            IF ~out.raises
            THEN [extraction EXCEPT !.pc = "returned", !.via = "download",
                                    !.article_data = out.article_data]
            ELSE [extraction EXCEPT !.pc = "raised", !.via = "download"]
    /\ UNCHANGED <<orchestrator, checks, session, last_request_time, request>>

\* extract_articles_from_page after _make_request: the links of the page, or the
\* `except Exception` of line 195
ParseLinks ==
    /\ extraction.pc = "request" /\ extraction.op = "links"
    /\ request.pc \in {"returned", "raised"}
    /\ \/ extraction' = [extraction EXCEPT !.pc = "returned", !.via = "except",
                                           !.article_urls = DiscoveryFallback(extraction.url)]
       \/ /\ request.pc = "returned"
          /\ \E links \in Orderings(DiscoveredLinks(Anchors(extraction.url))) :
                extraction' = [extraction EXCEPT !.pc = "returned", !.via = "html",
                                                 !.article_urls = links]
    /\ UNCHANGED <<orchestrator, checks, session, last_request_time, now, request, wire>>

(***************************************************************************)
(* is_valid_article as a call: the dict it is given and what comes of it.  *)
(***************************************************************************)
ValidationFrame ==
    [pc |-> "idle", result |-> None,
     article_data |-> [url |-> None, title |-> NoneText, content |-> NoneText]]

ExtractionFailedMixed ==
    <<"E","x","t","r","a","c","t","i","o","n"," ","F","A","I","L","E","D">>

\* the 'url' of the dict: absent or present
ValidateUrls == {None, "u"}

\* the 'title' of the dict: None, empty, 9 and 10 characters, the same inside
\* whitespace, and two texts that hold an indicator in another letter case
ValidateTitles ==
    { NoneText, <<>>, SubSeq(TechStory, 1, 9), TechStory,
      <<" ">> \o SubSeq(TechStory, 1, 9) \o <<" ">>, <<" ">> \o TechStory,
      ExtractionFailedMixed, NoTitleExtracted }

\* the 'content' of the dict: None, empty, 99, 100 and 1000 characters, the
\* same inside whitespace, and a text that holds an indicator in upper case
ValidateContents ==
    { NoneText, <<>>, Rep("c", 99), Rep("c", 100), Rep("c", 1000),
      Rep("c", 99) \o <<" ", "\n">>, <<" ">> \o Rep("c", 100),
      <<"E","R","R","O","R",":">> \o Rep("c", 100) }

ValidateRecords ==
    { [url |-> u, title |-> t, content |-> c] :
        u \in ValidateUrls, t \in ValidateTitles, c \in ValidateContents }

\* is_valid_article(article_data): True, False, or the AttributeError of
\* None.lower()
is_valid_article_result(d) ==
    IF is_valid_article_raises(d) THEN "AttributeError"
    ELSE IF is_valid_article(d) THEN "True" ELSE "False"

Validate ==
    /\ validation.pc = "called"
    /\ validation' = [validation EXCEPT
                        !.pc = "done",
                        !.result = is_valid_article_result(validation.article_data)]
    /\ UNCHANGED <<orchestrator, session, last_request_time, now, request, wire,
                   extraction, call, web>>

(***************************************************************************)
(* _is_likely_article_url, the filter of the links of a page.  A url is a  *)
(* sequence of characters.                                                 *)
(***************************************************************************)
CallFrame == [pc |-> "idle", fn |-> None, arg |-> None, result |-> None, before |-> {}]

skip_patterns ==
    { <<"/","c","a","t","e","g","o","r","y","/">>,
      <<"/","t","a","g","/">>,
      <<"/","a","u","t","h","o","r","/">>,
      <<"/","s","e","a","r","c","h","/">>,
      <<"/","p","a","g","e","/">>,
      <<"/","c","o","n","t","a","c","t">>,
      <<"/","a","b","o","u","t">>,
      <<"/","p","r","i","v","a","c","y">>,
      <<"/","t","e","r","m","s">>,
      <<"/","s","i","t","e","m","a","p">>,
      <<".","p","d","f">>,
      <<".","j","p","g">>,
      <<".","p","n","g">>,
      <<".","g","i","f">>,
      <<".","c","s","s">>,
      <<".","j","s">>,
      <<"/","f","e","e","d","/">>,
      <<"/","r","s","s","/">>,
      <<"/","a","d","m","i","n","/">>,
      <<"/","l","o","g","i","n">>,
      <<"/","r","e","g","i","s","t","e","r">> }

article_patterns ==
    { <<"/","a","r","t","i","c","l","e","/">>,
      <<"/","n","e","w","s","/">>,
      <<"/","b","l","o","g","/">>,
      <<"/","p","o","s","t","/">>,
      <<"/","s","t","o","r","y","/">>,
      <<"/","c","o","n","t","e","n","t","/">>,
      <<"/","r","e","a","d","/">>,
      <<"/","v","i","e","w","/">>,
      <<"/","s","t","a","r","t","u","p","s","/">>,
      <<"/","b","i","o","t","e","c","h","/">>,
      <<"/","e","n","t","e","r","p","r","i","s","e","/">>,
      <<"/","t","r","a","n","s","p","o","r","t","a","t","i","o","n","/">>,
      <<"/","c","l","o","u","d","/">>,
      <<"/","a","i","/">>,
      <<"/","f","i","n","t","e","c","h","/">>,
      <<"/","g","a","m","i","n","g","/">>,
      <<"/","m","o","b","i","l","e","/">>,
      <<"/","v","e","n","t","u","r","e","-","c","a","p","i","t","a","l","/">>,
      <<"/","h","i","r","i","n","g","/">>,
      <<"/","l","e","g","a","l","/">>,
      <<"/","r","e","a","l","-","e","s","t","a","t","e","/">> }

Digits == {"0", "1", "2", "3", "4", "5", "6", "7", "8", "9"}

\* \w of a regular expression, on ASCII text
IsWordChar(c) == IsLetter(c) \/ c \in Digits \/ c = "_"

\* the character at position i, or the end of the text
At(s, i) == IF i \in 1..Len(s) THEN s[i] ELSE "$"

\* (/\d{1,2})? at position i with n digits; n = 0 is the group left out
DateGroup(s, i, n) ==
    n = 0 \/ (At(s, i) = "/" /\ \A k \in 1..n : At(s, i + k) \in Digits)
DateGroupLen(n) == IF n = 0 THEN 0 ELSE n + 1

\* re.search(r'/\d{4}(/\d{1,2})?(/\d{1,2})?/', url)
date_pattern(s) ==
    \E i \in 1..Len(s) :
        /\ s[i] = "/"
        /\ \A k \in 1..4 : At(s, i + k) \in Digits
        /\ \E n1 \in 0..2, n2 \in 0..2 :
            /\ DateGroup(s, i + 5, n1)
            /\ DateGroup(s, i + 5 + DateGroupLen(n1), n2)
            /\ At(s, i + 5 + DateGroupLen(n1) + DateGroupLen(n2)) = "/"

\* re.search(r'/[\w-]+(-\d+)?/?$', url): a slash at i, [\w-]+ up to j,
\* (-\d+)? up to e, /? and the end
slug_pattern(s) ==
    \E i \in 1..Len(s) :
        /\ s[i] = "/"
        /\ \E j \in (i + 1)..Len(s) :
            /\ \A k \in (i + 1)..j : IsWordChar(s[k]) \/ s[k] = "-"
            /\ \E e \in j..Len(s) :
                /\ \/ e = j
                   \/ /\ e >= j + 2 /\ s[j + 1] = "-"
                      /\ \A k \in (j + 2)..e : s[k] \in Digits
                /\ \/ e = Len(s)
                   \/ e + 1 = Len(s) /\ s[e + 1] = "/"

SkipMatch(url) == \E pattern \in skip_patterns : Contains(Lower(url), pattern)
ArticleMatch(url) == \E pattern \in article_patterns : Contains(Lower(url), pattern)

\* the filter with its article patterns looked at before its skip patterns
is_likely_article_url_allow_first(url) ==
    IF ArticleMatch(url) THEN TRUE
    ELSE IF SkipMatch(url) THEN FALSE
    ELSE IF date_pattern(url) THEN TRUE
    ELSE IF slug_pattern(url) THEN TRUE
    ELSE FALSE

is_likely_article_url(url) ==
    IF SkipMatch(url) THEN FALSE
    ELSE IF ArticleMatch(url) THEN TRUE
    ELSE IF date_pattern(url) THEN TRUE
    ELSE IF slug_pattern(url) THEN TRUE
    ELSE FALSE

ExampleCom == <<"h","t","t","p","s",":","/","/","e","x","a","m","p","l","e",".","c","o","m">>
CategoryTech == ExampleCom \o <<"/","c","a","t","e","g","o","r","y","/","t","e","c","h">>
NewsStory == ExampleCom \o <<"/","n","e","w","s","/","2","0","2","4","/","0","3","/","s","t","o","r","y","-","1","2","3">>

\* the parts the urls given to the filter are put together from
FilterUrls ==
    { ExampleCom \o a \o b \o c :
        a \in { <<>>,
                   <<"/","c","a","t","e","g","o","r","y">>,
                   <<"/","n","e","w","s">>,
                   <<"/","2","0","2","4">>,
                   <<"/","N","E","W","S">>,
                   <<"/","T","a","g">>,
                   <<"/","d","o","c","s">> },
        b \in { <<>>,
                   <<"/","0","3">>,
                   <<"/","t","e","c","h">>,
                   <<"/","a","b","o","u","t","-","u","s">> },
        c \in { <<>>,
                   <<"/">>,
                   <<"/","s","t","o","r","y","-","1","2","3">>,
                   <<"/","a",".","p","d","f">>,
                   <<"/","i","n","d","e","x",".","h","t","m","l">>,
                   <<"/","?","p","=","1">> } }
    \cup {CategoryTech, NewsStory}

CheckUrl ==
    /\ call.pc = "called" /\ call.fn = "_is_likely_article_url"
    /\ call' = [call EXCEPT !.pc = "done", !.result = is_likely_article_url(call.arg)]
    /\ UNCHANGED <<orchestrator, session, last_request_time, now, request, wire,
                   extraction, validation, web>>

(***************************************************************************)
(* link_article_topic and link_article_company called on their own, on the *)
(* ids of two articles and of two topics or companies.                     *)
(***************************************************************************)
LinkIds == {1, 2}

LinkTopic ==
    \E article_id \in LinkIds, topic_id \in LinkIds, db_ok \in BOOLEAN :
        /\ link_article_topic(article_id, topic_id, db_ok)
        /\ call' = [pc |-> "done", fn |-> "link_article_topic",
                    arg |-> <<article_id, topic_id>>, result |-> "returned",
                    before |-> article_topics]
        /\ UNCHANGED <<articles, articles_id_seq, topics, topics_id_seq, companies,
                       companies_id_seq, article_companies, crawl_registry, site,
                       sweep, single, session, last_request_time, now, request,
                       wire, extraction, validation, researched, web>>

LinkCompany ==
    \E article_id \in LinkIds, company_id \in LinkIds, db_ok \in BOOLEAN :
        /\ link_article_company(article_id, company_id, db_ok)
        /\ call' = [pc |-> "done", fn |-> "link_article_company",
                    arg |-> <<article_id, company_id>>, result |-> "returned",
                    before |-> article_companies]
        /\ UNCHANGED <<articles, articles_id_seq, topics, topics_id_seq, companies,
                       companies_id_seq, article_topics, crawl_registry, site,
                       sweep, single, session, last_request_time, now, request,
                       wire, extraction, validation, researched, web>>

(***************************************************************************)
(* web/job_status.py: JobStatusTracker.  A datetime is "datetime", a dict  *)
(* of results is "{}" when empty and "results" otherwise.                  *)
(***************************************************************************)
JobNames == {"refresh_all", "crawl", "research", "trending"}

\* `step_number: int = None`, and the key current_step_number where it is absent
NoStep == -1

\* the entry start_job creates for a name it does not know
BasicJob ==
    [status |-> "idle", current_step |-> "", current_step_number |-> NoStep,
     started_at |-> None, completed_at |-> None, error |-> None, results |-> "{}"]

\* JobStatusTracker.__init__
NewTracker ==
    [n \in JobNames |->
        IF n = "refresh_all" THEN [BasicJob EXCEPT !.current_step_number = 0]
        ELSE BasicJob]

start_job(status, job_name, current_step) ==
    LET entry == IF job_name \in DOMAIN status THEN status[job_name] ELSE BasicJob
        started == [entry EXCEPT
                       !.status = "running", !.started_at = "datetime",
                       !.completed_at = None, !.error = None,
                       !.current_step = current_step,
                       !.current_step_number = IF job_name = "refresh_all" THEN 1 ELSE @]
    IN  [n \in DOMAIN status \cup {job_name} |->
            IF n = job_name THEN started ELSE status[n]]

update_job_step(status, job_name, step, step_number) ==
    IF job_name \notin DOMAIN status THEN status
    ELSE [status EXCEPT
            ![job_name].current_step = step,
            ![job_name].current_step_number = IF step_number # NoStep THEN step_number ELSE @]

complete_job(status, job_name, results) ==
    IF job_name \notin DOMAIN status THEN status
    ELSE [status EXCEPT
            ![job_name].status = "completed",
            ![job_name].completed_at = "datetime",
            ![job_name].current_step = "Completed",
            ![job_name].results = IF results \in {None, "{}"} THEN "{}" ELSE results]

\* a fail_job that records the status alone
fail_job_status_only(status, job_name, error) ==
    IF job_name \notin DOMAIN status THEN status
    ELSE [status EXCEPT ![job_name].status = "error"]

fail_job(status, job_name, error) ==
    IF job_name \notin DOMAIN status THEN status
    ELSE [status EXCEPT
            ![job_name].status = "error",
            ![job_name].completed_at = "datetime",
            ![job_name].error = error,
            ![job_name].current_step = <<"Failed: ", error>>]

is_any_job_running(status) == \E n \in DOMAIN status : status[n].status = "running"

reset_job(status, job_name) ==
    IF job_name \notin DOMAIN status THEN status
    ELSE [status EXCEPT
            ![job_name] = [@ EXCEPT
                !.status = "idle", !.current_step = "", !.started_at = None,
                !.completed_at = None, !.error = None, !.results = "{}",
                !.current_step_number = IF job_name = "refresh_all" THEN 0 ELSE @]]

\* the tracker called on its own: on a job it holds from the start and on a
\* name it does not know
TrackerNames == {"refresh_all", "export"}

Called(fn, job_name) ==
    [pc |-> "done", fn |-> fn, arg |-> job_name, result |-> "returned",
     before |-> DOMAIN job_tracker]

StartJob ==
    /\ \E job_name \in TrackerNames :
        /\ job_tracker' = start_job(job_tracker, job_name, "Starting")
        /\ call' = Called("start_job", job_name)
    /\ UNCHANGED <<orchestrator, session, last_request_time, now, request, wire,
                   extraction, validation, tasks, running>>

UpdateJobStep ==
    /\ \E job_name \in TrackerNames, step_number \in {NoStep, 2} :
        /\ job_tracker' = update_job_step(job_tracker, job_name, "Step", step_number)
        /\ call' = Called("update_job_step", job_name)
    /\ UNCHANGED <<orchestrator, session, last_request_time, now, request, wire,
                   extraction, validation, tasks, running>>

CompleteJob ==
    /\ \E job_name \in TrackerNames, results \in {None, "results"} :
        /\ job_tracker' = complete_job(job_tracker, job_name, results)
        /\ call' = Called("complete_job", job_name)
    /\ UNCHANGED <<orchestrator, session, last_request_time, now, request, wire,
                   extraction, validation, tasks, running>>

FailJob ==
    /\ \E job_name \in TrackerNames :
        /\ job_tracker' = fail_job(job_tracker, job_name, "failed")
        /\ call' = Called("fail_job", job_name)
    /\ UNCHANGED <<orchestrator, session, last_request_time, now, request, wire,
                   extraction, validation, tasks, running>>

ResetJob ==
    /\ \E job_name \in TrackerNames :
        /\ job_tracker' = reset_job(job_tracker, job_name)
        /\ call' = Called("reset_job", job_name)
    /\ UNCHANGED <<orchestrator, session, last_request_time, now, request, wire,
                   extraction, validation, tasks, running>>

(***************************************************************************)
(* web/app.py: the background tasks and the handlers, as coroutines of one *)
(* event loop.  A coroutine runs from one await to the next without        *)
(* another one running in between: `running` is the coroutine that holds   *)
(* the loop.  A background task added by a handler starts after the        *)
(* handler's response, whenever the loop is free.                          *)
(***************************************************************************)
MaxTasks == 2

\* the steps of run_refresh_all_background: crawl, research, and a trending
\* report for each of 7, 30 and 90 days
RefreshSteps ==
    << "run_crawl_background", "run_company_research_background",
       "run_trending_analysis_background", "run_trending_analysis_background",
       "run_trending_analysis_background" >>

JobOf(fn) ==
    IF fn = "run_crawl_background" THEN "crawl"
    ELSE IF fn = "run_company_research_background" THEN "research"
    ELSE "trending"

\* a coroutine: pc is "pending" (added, not started), "call" (refresh_all about
\* to call its next step), "run" (in the code the function awaits: run_crawl,
\* crawl_single_url, the researcher, the analyzer), "request" (in
\* _make_request) or "returned"
Task(fn) ==
    [fn |-> fn, pc |-> "pending", step |-> 0, suspended |-> FALSE, outcomes |-> <<>>]

\* the run_*_background function that coroutine t is in
BackgroundFn(t) ==
    IF t.fn = "run_refresh_all_background" THEN RefreshSteps[t.step] ELSE t.fn

\* the functions whose code reaches ContentExtractor._make_request
Fetches(fn) == fn \in {"run_crawl_background", "crawl_single_url"}

\* a coroutine that could be suspended anywhere
Suspends_in_request(pc) == pc \in {"run", "request"}

\* where a coroutine can be suspended: at the awaits of the code it runs, none
\* of them in _make_request or in its callers in extractor.py
Suspends(pc) == pc = "run"

\* a step that never counts as failed
StepFailed_never(status) == FALSE

\* `if crawl_status["status"] != JobStatus.COMPLETED`
StepFailed(status) == status # "completed"

\* a not-configured path that returns at once
NotConfigured_returns(status, job_name) == status

\* `if not crawler: job_tracker.fail_job(...); return`
NotConfigured(status, job_name) == fail_job(status, job_name, "not initialized")

\* what follows the return of a run_*_background function in coroutine i, the
\* tracker being st: the end of the task, or the rest of run_refresh_all_background
\* up to its next call
AfterReturn(st, i) ==
    LET t == tasks[i]
        outcome == st[JobOf(BackgroundFn(t))].status
        u == [t EXCEPT !.outcomes = Append(@, outcome)]
    IN  IF t.fn # "run_refresh_all_background"
        THEN [job_tracker |-> st, task |-> [u EXCEPT !.pc = "returned"], running |-> 0]
        ELSE IF t.step \in {1, 2} /\ StepFailed(outcome)
        THEN [job_tracker |-> fail_job(st, "refresh_all", "step failed"),
              task |-> [u EXCEPT !.pc = "returned"], running |-> 0]
        ELSE IF t.step = 1
        THEN [job_tracker |-> update_job_step(st, "refresh_all", "Step 2/3", 2),
              task |-> [u EXCEPT !.pc = "call", !.step = 2], running |-> i]
        ELSE IF t.step = 2
        THEN [job_tracker |-> update_job_step(st, "refresh_all", "Step 3/3", 3),
              task |-> [u EXCEPT !.pc = "call", !.step = 3], running |-> i]
        ELSE IF t.step < Len(RefreshSteps)
        THEN [job_tracker |-> st,
              task |-> [u EXCEPT !.pc = "call", !.step = @ + 1], running |-> i]
        ELSE [job_tracker |-> complete_job(st, "refresh_all", "results"),
              task |-> [u EXCEPT !.pc = "returned"], running |-> 0]

Returns(st, i) ==
    LET after == AfterReturn(st, i)
    IN  /\ job_tracker' = after.job_tracker
        /\ tasks' = [tasks EXCEPT ![i] = after.task]
        /\ running' = after.running

\* POST /refresh-all
trigger_refresh_all ==
    /\ running = 0
    /\ Len(tasks) < MaxTasks
    /\ \E configured \in BOOLEAN :
        IF is_any_job_running(job_tracker) \/ ~configured
        THEN UNCHANGED <<job_tracker, tasks>>
        ELSE /\ job_tracker' =
                    reset_job(reset_job(reset_job(reset_job(job_tracker,
                        "refresh_all"), "crawl"), "research"), "trending")
             /\ tasks' = Append(tasks, Task("run_refresh_all_background"))
    /\ UNCHANGED <<orchestrator, session, last_request_time, now, request, wire,
                   extraction, validation, call, running>>

\* POST /crawl/run: 400 without a crawler, else the task is added
trigger_crawl ==
    /\ running = 0
    /\ Len(tasks) < MaxTasks
    /\ \E configured \in BOOLEAN :
        tasks' = IF configured THEN Append(tasks, Task("run_crawl_background")) ELSE tasks
    /\ UNCHANGED <<orchestrator, session, last_request_time, now, request, wire,
                   extraction, validation, call, job_tracker, running>>

\* POST /companies/research: 400 without a client, else the task is added
research_companies ==
    /\ running = 0
    /\ Len(tasks) < MaxTasks
    /\ \E configured \in BOOLEAN :
        tasks' = IF configured THEN Append(tasks, Task("run_company_research_background"))
                 ELSE tasks
    /\ UNCHANGED <<orchestrator, session, last_request_time, now, request, wire,
                   extraction, validation, call, job_tracker, running>>

\* POST /crawl/single: 400 without a crawler, else the handler runs into
\* crawler.crawl_single_url
crawl_single_url ==
    /\ running = 0
    /\ Len(tasks) < MaxTasks
    /\ \E configured \in BOOLEAN :
        IF configured
        THEN /\ tasks' = Append(tasks, [Task("crawl_single_url") EXCEPT !.pc = "run"])
             /\ running' = Len(tasks) + 1
        ELSE UNCHANGED <<tasks, running>>
    /\ UNCHANGED <<orchestrator, session, last_request_time, now, request, wire,
                   extraction, validation, call, job_tracker>>

\* run_refresh_all_background up to its call of run_crawl_background
run_refresh_all_background ==
    /\ running = 0
    /\ \E i \in DOMAIN tasks :
        /\ tasks[i].fn = "run_refresh_all_background" /\ tasks[i].pc = "pending"
        /\ job_tracker' = update_job_step(
                start_job(job_tracker, "refresh_all", "Starting"),
                "refresh_all", "Step 1/3", 1)
        /\ tasks' = [tasks EXCEPT ![i].pc = "call", ![i].step = 1]
        /\ running' = i
    /\ UNCHANGED <<orchestrator, session, last_request_time, now, request, wire,
                   extraction, validation, call>>

\* run_crawl_background, run_company_research_background and
\* run_trending_analysis_background up to their await, as a task of their own
\* or called by run_refresh_all_background
run_background ==
    /\ \E i \in DOMAIN tasks :
        /\ \/ running = 0 /\ tasks[i].pc = "pending"
                          /\ tasks[i].fn # "run_refresh_all_background"
           \/ running = i /\ tasks[i].pc = "call"
        /\ LET job_name == JobOf(BackgroundFn(tasks[i]))
               started == start_job(job_tracker, job_name, "Initializing")
           IN  \E config \in {"configured", "none", "raises"} :
                IF config = "configured"
                THEN /\ job_tracker' = update_job_step(started, job_name, "Working", NoStep)
                     /\ tasks' = [tasks EXCEPT ![i].pc = "run"]
                     /\ running' = i
                ELSE IF config = "none"
                THEN Returns(NotConfigured(started, job_name), i)
                ELSE Returns(fail_job(started, job_name, "failed"), i)
    /\ UNCHANGED <<orchestrator, session, last_request_time, now, request, wire,
                   extraction, validation, call>>

\* the running coroutine enters ContentExtractor._make_request
EnterMakeRequest ==
    /\ running # 0
    /\ tasks[running].pc = "run"
    /\ Fetches(BackgroundFn(tasks[running]))
    /\ tasks' = [tasks EXCEPT ![running].pc = "request"]
    /\ UNCHANGED <<orchestrator, session, last_request_time, now, request, wire,
                   extraction, validation, call, job_tracker, running>>

\* _make_request returns or raises
LeaveMakeRequest ==
    /\ running # 0
    /\ tasks[running].pc = "request"
    /\ tasks' = [tasks EXCEPT ![running].pc = "run"]
    /\ UNCHANGED <<orchestrator, session, last_request_time, now, request, wire,
                   extraction, validation, call, job_tracker, running>>

\* the running coroutine awaits: the loop is free
Suspend ==
    /\ running # 0
    /\ Suspends(tasks[running].pc)
    /\ tasks' = [tasks EXCEPT ![running].suspended = TRUE]
    /\ running' = 0
    /\ UNCHANGED <<orchestrator, session, last_request_time, now, request, wire,
                   extraction, validation, call, job_tracker>>

\* what a coroutine awaited is there: the loop runs it again
Resume ==
    /\ running = 0
    /\ \E i \in DOMAIN tasks :
        /\ tasks[i].suspended
        /\ tasks' = [tasks EXCEPT ![i].suspended = FALSE]
        /\ running' = i
    /\ UNCHANGED <<orchestrator, session, last_request_time, now, request, wire,
                   extraction, validation, call, job_tracker>>

\* the awaited code returns or raises: the end of crawl_single_url, or of a
\* run_*_background function with complete_job or fail_job
End ==
    /\ running # 0
    /\ tasks[running].pc = "run"
    /\ LET fn == BackgroundFn(tasks[running])
           job_name == JobOf(fn)
       IN  IF fn = "crawl_single_url"
           THEN /\ tasks' = [tasks EXCEPT ![running].pc = "returned"]
                /\ running' = 0
                /\ UNCHANGED job_tracker
           ELSE \E raised \in (IF fn = "run_crawl_background" THEN {FALSE} ELSE BOOLEAN) :
                    Returns(IF raised THEN fail_job(job_tracker, job_name, "failed")
                                      ELSE complete_job(job_tracker, job_name, "results"),
                            running)
    /\ UNCHANGED <<orchestrator, session, last_request_time, now, request, wire,
                   extraction, validation, call>>

\* no coroutine, a new tracker
NoWeb == job_tracker = NewTracker /\ tasks = <<>> /\ running = 0

(***************************************************************************)
(* Specifications.                                                         *)
(***************************************************************************)
EmptyStorage ==
    /\ articles = {} /\ articles_id_seq = 1
    /\ topics = {} /\ topics_id_seq = 1
    /\ companies = {} /\ companies_id_seq = 1
    /\ article_topics = {} /\ article_companies = {}

\* ContentExtractor.__init__
NewExtractor ==
    /\ session = 1
    /\ last_request_time = 0
    /\ now = Epoch
    /\ request = RequestFrame
    /\ wire = [last |-> 0, closest |-> min_delay]
    /\ extraction = ExtractionFrame

\* one source page listing one article, swept while single-URL calls run
Init ==
    /\ EmptyStorage
    /\ crawl_registry = << Registration("p1", TRUE, TRUE, TRUE),
                           Registration("p3", TRUE, TRUE, FALSE) >>
    /\ site = [p \in {"p1"} |-> {"a1"}]
    /\ sweep = SweepFrame
    /\ single = SingleFrame
    /\ researched = <<>>
    /\ NewExtractor
    /\ NoWeb
    /\ validation = ValidationFrame
    /\ call = CallFrame

\* a source page listing three articles and a source page listing none
InitSweep ==
    /\ EmptyStorage
    /\ crawl_registry = << Registration("p1", FALSE, FALSE, TRUE),
                           Registration("p3", TRUE, TRUE, FALSE),
                           Registration("p2", TRUE, TRUE, TRUE) >>
    /\ site = [p \in {"p1", "p2"} |-> IF p = "p1" THEN {"a1", "a2", "a3"} ELSE {}]
    /\ sweep = SweepFrame
    /\ single = SingleFrame
    /\ researched = <<>>
    /\ NewExtractor
    /\ NoWeb
    /\ validation = ValidationFrame
    /\ call = CallFrame

SweepNext ==
    \/ StartSweep \/ Discover \/ SweepCheck \/ SweepSummarize \/ SweepAddArticle
    \/ SweepExtractTopics \/ SweepGetTopic \/ SweepAddTopic \/ SweepLinkTopic
    \/ SweepExtractCompanies \/ SweepGetCompany \/ SweepResearchCompany
    \/ SweepAddCompany \/ SweepLinkCompany

SingleNext ==
    \/ StartSingle \/ SingleCheck \/ SingleSummarize \/ SingleAddArticle
    \/ SingleExtractTopics \/ SingleGetTopic \/ SingleAddTopic \/ SingleLinkTopic
    \/ SingleExtractCompanies \/ SingleGetCompany \/ SingleResearchCompany
    \/ SingleAddCompany \/ SingleLinkCompany

Next == SweepNext \/ SingleNext

FetchNext == StartRequest \/ FirstGet \/ RetrySleep \/ RetryGet

Spec == Init /\ [][Next]_vars
SpecSweep == InitSweep /\ [][SweepNext]_vars
ExtractNext ==
    \/ CallExtractContent \/ FirstGet \/ RetrySleep \/ RetryGet
    \/ ParseContent \/ NativeDownload
DiscoverNext == CallDiscover \/ FirstGet \/ RetrySleep \/ RetryGet \/ ParseLinks

SpecFetch == Init /\ [][FetchNext]_vars
SpecExtract == Init /\ [][ExtractNext]_vars
SpecDiscover == Init /\ [][DiscoverNext]_vars

\* is_valid_article on every dict of ValidateRecords
InitValidate ==
    /\ EmptyStorage
    /\ crawl_registry = <<>>
    /\ site = [p \in {} |-> {}]
    /\ sweep = SweepFrame
    /\ single = SingleFrame
    /\ researched = <<>>
    /\ NewExtractor
    /\ NoWeb
    /\ \E d \in ValidateRecords :
          validation = [ValidationFrame EXCEPT !.pc = "called", !.article_data = d]
    /\ call = CallFrame

ValidateNext == Validate

SpecValidate == InitValidate /\ [][ValidateNext]_vars

\* the state before any crawl, with no registration
Quiet ==
    /\ EmptyStorage
    /\ crawl_registry = <<>>
    /\ site = [p \in {} |-> {}]
    /\ sweep = SweepFrame
    /\ single = SingleFrame
    /\ researched = <<>>
    /\ NewExtractor
    /\ NoWeb
    /\ validation = ValidationFrame

\* _is_likely_article_url on every url of FilterUrls
InitFilter ==
    /\ Quiet
    /\ \E url \in FilterUrls :
          call = [CallFrame EXCEPT !.pc = "called", !.fn = "_is_likely_article_url",
                                   !.arg = url]

FilterNext == CheckUrl

SpecFilter == InitFilter /\ [][FilterNext]_vars

\* one source page that lists two articles and asks for companies, swept
\* before or after single-URL calls, never during one
InitSequential ==
    /\ EmptyStorage
    /\ crawl_registry = << Registration("p1", FALSE, TRUE, TRUE) >>
    /\ site = [p \in {"p1"} |-> {"a1", "a2"}]
    /\ sweep = SweepFrame
    /\ single = SingleFrame
    /\ researched = <<>>
    /\ NewExtractor
    /\ NoWeb
    /\ validation = ValidationFrame
    /\ call = CallFrame

SequentialNext ==
    \/ single.pc \in {"idle", "done"} /\ SweepNext
    \/ sweep.pc \in {"idle", "done"} /\ SingleNext

SpecSequential == InitSequential /\ [][SequentialNext]_vars

\* one source page that lists one article, registered with any combination
\* of the two flags, swept before or after single-URL calls with any flags
InitFlags ==
    /\ EmptyStorage
    /\ \E extract_topics \in BOOLEAN, extract_companies \in BOOLEAN :
          crawl_registry = << Registration("p1", extract_topics, extract_companies, TRUE) >>
    /\ site = [p \in {"p1"} |-> {"a1"}]
    /\ sweep = SweepFrame
    /\ single = SingleFrame
    /\ researched = <<>>
    /\ NewExtractor
    /\ NoWeb
    /\ validation = ValidationFrame
    /\ call = CallFrame

SpecFlags == InitFlags /\ [][SequentialNext]_vars

InitLink == Quiet /\ call = CallFrame

\* the tracker's five operations in any order
TrackerNext == StartJob \/ UpdateJobStep \/ CompleteJob \/ FailJob \/ ResetJob

SpecTracker == InitLink /\ [][TrackerNext]_vars

\* the requests and the coroutines of the web application
WebNext ==
    \/ trigger_refresh_all \/ trigger_crawl \/ research_companies \/ crawl_single_url
    \/ run_refresh_all_background \/ run_background
    \/ EnterMakeRequest \/ LeaveMakeRequest \/ Suspend \/ Resume \/ End

SpecWeb == InitLink /\ [][WebNext]_vars

LinkNext == LinkTopic \/ LinkCompany

SpecLink == InitLink /\ [][LinkNext]_vars

(***************************************************************************)
(* Properties.                                                             *)
(***************************************************************************)
CountOf(seq, S) == Cardinality({i \in DOMAIN seq : seq[i] \in S})

ArticlesAt(url) == {a \in articles : a.url = url}

\* C1: storage never holds two ArticleRecords with the same URL, whatever the
\* interleaving of the sweep and the single-URL ingestions.
C1_OneArticlePerUrl == \A a, b \in articles : a.url = b.url => a = b

\* an ingestion reached its insert for a URL that was already stored
C1_Witness ==
    /\ single.pc = "done"
    /\ single.results.error = "Duplicate key url"
    /\ Cardinality(ArticlesAt(single.results.url)) = 1

\* C2 as amended: when the first of two successive crawl_single_url calls on a URL
\* stored the article, the second stores nothing, calls no Enrichment operation and
\* fails with "Article already exists" (or with the storage error of its own
\* existence check); storage holds exactly one ArticleRecord for the URL.
C2_SecondCallAfterSuccess ==
    (single.pc = "done" /\ single.prev.success /\ single.prev.url = single.results.url)
        => /\ Cardinality(ArticlesAt(single.results.url)) = 1
           /\ ~single.results.success
           /\ single.llm = {}
           /\ single.results.error \in {"Article already exists", "IOException"}

C2_Witness ==
    /\ single.pc = "done" /\ single.prev.success
    /\ single.prev.url = single.results.url
    /\ single.results.error = "Article already exists"

\* C2 as claimed: after any two successive crawl_single_url calls on one URL there
\* is exactly one stored ArticleRecord, the second call reports "already exists"
\* and it called no Enrichment operation.
C2_AnyTwoCalls ==
    (single.pc = "done" /\ single.calls >= 2 /\ single.prev.url = single.results.url)
        => /\ Cardinality(ArticlesAt(single.results.url)) = 1
           /\ single.results.error = "Article already exists"
           /\ single.llm = {}

\* C3 as claimed: an insert that loses the race on the unique URL is reported like
\* "already exists": the rejected duplicate key never shows up as an entry of the
\* sweep's errors (the candidate counts as existing, not as failed) nor as the
\* error string of crawl_single_url.
C3_LostRaceIsAlreadyExists ==
    /\ \A i \in DOMAIN sweep.results.errors :
            sweep.results.errors[i].exc # "Duplicate key url"
    /\ single.results.error # "Duplicate key url"

\* the text rules of the validator, on a stored document
PassesRules ==
    [n \in DocNames |->
        /\ Truthy(DocTitle(n)) /\ Truthy(DocContent(n))
        /\ \A ind \in error_indicators :
              ~Contains(Lower(DocTitle(n)), ind) /\ ~Contains(Lower(DocContent(n)), ind)
        /\ Len(Strip(DocTitle(n))) >= 10
        /\ Len(Strip(DocContent(n))) >= 100]

\* C4: every stored ArticleRecord passes the validator rules (no sentinel text,
\* title of at least 10 characters, body of at least 100), and every candidate of
\* the sweep that was rejected is counted in failed_extractions.
C4_OnlyValidStored ==
    /\ \A a \in articles : PassesRules[a.doc]
    /\ sweep.results.failed_extractions =
            CountOf(sweep.outcomes, {"extraction_raised", "invalid", "error"})

\* a candidate was rejected and counted, and a validated one was stored
C4_Witness ==
    /\ articles # {}
    /\ sweep.outcomes = <<"invalid">>
    /\ sweep.results.failed_extractions = 1

\* what is left of the sweep, as a number that every step makes smaller
NameStep ==
    [pc \in {"get_topic", "add_topic", "link_topic", "get_company",
             "research_company", "add_company", "link_company"} |->
        CASE pc \in {"link_topic", "link_company"} -> 1
          [] pc \in {"add_topic", "add_company"} -> 2
          [] pc = "research_company" -> 3
          [] OTHER -> 4]

CandidateRank ==
    CASE sweep.pc = "check" -> 900
      [] sweep.pc = "summarize" -> 800
      [] sweep.pc = "add_article" -> 700
      [] sweep.pc = "extract_topics" -> 600
      [] sweep.pc \in {"get_topic", "add_topic", "link_topic"} ->
            300 + 10 * Len(sweep.names) + NameStep[sweep.pc]
      [] sweep.pc = "extract_companies" -> 200
      [] OTHER -> 10 * Len(sweep.names) + NameStep[sweep.pc]

SweepRank ==
    IF sweep.pc \in {"idle", "done"} THEN 0
    ELSE 10000 * (Len(sweep.active_entries) - sweep.entry_idx)
         + (IF sweep.pc = "discover" THEN 9999
            ELSE 1000 * (Len(sweep.article_urls) - sweep.url_idx) + CandidateRank)

SweepLabels ==
    {"idle", "done", "discover", "check", "summarize", "add_article", "extract_topics",
     "get_topic", "add_topic", "link_topic", "extract_companies", "get_company",
     "research_company", "add_company", "link_company"}

\* C5: run_crawl always completes and returns its RunSummary: no exception leaves
\* it (the frame is never left by a raise), a sweep that has not returned can
\* always take a step, and every step brings it closer to the return.
C5_SweepCompletes ==
    /\ [](/\ sweep.pc \in SweepLabels
          /\ sweep.pc \notin {"idle", "done"} => ENABLED SweepNext
          /\ DOMAIN sweep.results = DOMAIN EmptySummary)
    /\ [][sweep.pc \notin {"idle", "done"} /\ sweep' # sweep => SweepRank' < SweepRank]_vars

\* a sweep returned partial results together with recorded errors
C5_Witness ==
    /\ sweep.pc = "done"
    /\ sweep.results.new_articles > 0
    /\ sweep.results.errors # <<>>
    /\ sweep.results.failed_extractions > 0

\* C6 as claimed: a sweep over three new candidates of which the second fails in
\* extraction returns new_articles = 2, failed_extractions = 1 and one entry in
\* errors.
C6_SecondOfThreeRaises ==
    (sweep.pc = "done" /\ sweep.outcomes = <<"new", "extraction_raised", "new">>)
        => /\ sweep.results.new_articles = 2
           /\ sweep.results.failed_extractions = 1
           /\ Len(sweep.results.errors) = 1

ActiveUrls ==
    LET active == SelectSeq(crawl_registry, LAMBDA e : e.active)
    IN  [i \in 1..Len(active) |-> active[i].url]

C9_PersistedStaysSuccessful ==
    /\ single.results.article_id # NoId
        => /\ single.results.success
           /\ \E a \in articles : /\ a.article_id = single.results.article_id
                                  /\ a.url = single.results.url
    /\ single.results.success => single.results.article_id # NoId
    /\ sweep.article_id # NoId
        => \E a \in articles : a.article_id = sweep.article_id /\ a.url = article_url
    /\ sweep.results.new_articles = CountOf(sweep.outcomes, {"new"})
    /\ sweep.results.new_articles + sweep.results.existing_articles
            + sweep.results.failed_extractions <= sweep.started

\* crawl_single_url returned after an enrichment step failed behind the insert
C9_Witness ==
    /\ single.pc = "done"
    /\ single.results.success
    /\ single.results.error = "AttributeError"
    /\ \E a \in articles : a.article_id = single.results.article_id

\* C10: a fetch answered by 403, 403, 403 and then 200 has not given up after the
\* third 403, and with the 200 it returns that response after exactly 4 requests
\* (the first one and 3 retries).
C10_ThreeDenialsThenOk ==
    /\ request.answers = <<"403", "403", "403">> => request.pc \in {"sleep", "retry"}
    /\ request.answers = <<"403", "403", "403", "200">>
        => /\ request.pc = "returned"
           /\ request.response = "200"
           /\ request.requests = 4

C10_Witness ==
    /\ request.answers = <<"403", "403", "403", "200">>
    /\ request.pc = "returned"
    /\ Len(request.delays) = 3

\* C11 as claimed: the delays slept before the successive retries of one fetch are
\* strictly increasing, whatever the random draws.
C11_DelaysIncrease ==
    \A k \in 1..(Len(request.delays) - 1) : request.delays[k + 1] > request.delays[k]

C13_RequestsSpaced == wire.closest >= min_delay

\* C14 as claimed: a record returned by extract_article_content carries no
\* failure placeholder as its title or its body.
C14_NoPlaceholderRecord ==
    (extraction.pc = "returned" /\ extraction.op = "content")
        => /\ extraction.article_data.title # Chars(NoTitleExtracted)
           /\ extraction.article_data.content # Chars(NoContentExtracted)

\* C15 as claimed: the body of every record returned by extract_article_content,
\* by whichever strategy, has at most MaxContentLen characters plus the three of
\* the truncation marker.
C15_BodyCapped ==
    (extraction.pc = "returned" /\ extraction.op = "content"
        /\ extraction.article_data.content # NoneRuns)
        => TextLen(extraction.article_data.content) <= MaxContentLen + 3

\* C16: given a dict with a url whose title or content is None,
\* is_valid_article returns False; it does not raise.
C16_NullFieldsRejected ==
    (/\ validation.pc = "done"
     /\ validation.article_data.url # None
     /\ \/ validation.article_data.title = NoneText
        \/ validation.article_data.content = NoneText)
        => validation.result = "False"

\* C17: a dict whose title or content holds one of the indicators, in any
\* letter case, is rejected with False whatever its other fields are.
C17_SentinelRejects ==
    (validation.pc = "done" /\ HasIndicator(validation.article_data))
        => validation.result = "False"

\* C18: for a dict with a url and no indicator in title or content,
\* is_valid_article returns True exactly when the stripped title has at least
\* 10 characters and the stripped content at least 100; a 9-character title
\* with 1000 characters of content and a 10-character title with 99 are
\* rejected, a 10-character title with 100 is accepted.
C18_LengthFloors ==
    LET d == validation.article_data
    IN  /\ (validation.pc = "done" /\ d.url # None /\ ~HasIndicator(d))
            => (validation.result = "True"
                    <=> /\ d.title # NoneText /\ d.content # NoneText
                        /\ Len(Strip(d.title)) >= 10
                        /\ Len(Strip(d.content)) >= 100)
        /\ (validation.pc = "done" /\ d.url # None
                /\ Len(d.title) = 9 /\ d.content = Rep("c", 1000))
            => validation.result = "False"
        /\ (validation.pc = "done" /\ d.url # None
                /\ d.title = TechStory /\ d.content = Rep("c", 99))
            => validation.result = "False"
        /\ (validation.pc = "done" /\ d.url # None
                /\ d.title = TechStory /\ d.content = Rep("c", 100))
            => validation.result = "True"

C18_Witness ==
    /\ validation.pc = "done"
    /\ validation.article_data = [url |-> "u", title |-> TechStory,
                                  content |-> Rep("c", 100)]
    /\ validation.result = "True"

C20_NeverEmpty ==
    (extraction.op = "links" /\ extraction.pc = "returned")
        => extraction.article_urls # <<>>

\* C21: a url that holds a skip pattern is rejected by
\* _is_likely_article_url whatever else it holds; a url that holds none is
\* accepted exactly when it holds an article pattern, a date-like segment or
\* the slug shape.  https://example.com/category/tech is rejected,
\* https://example.com/news/2024/03/story-123 is accepted.
C21_DenylistFirst ==
    call.pc = "done" =>
        /\ SkipMatch(call.arg) => call.result = FALSE
        /\ ~SkipMatch(call.arg) =>
              (call.result = TRUE <=> \/ ArticleMatch(call.arg)
                                      \/ date_pattern(call.arg)
                                      \/ slug_pattern(call.arg))
        /\ call.arg = CategoryTech => call.result = FALSE
        /\ call.arg = NewsStory => call.result = TRUE

\* a url rejected for a skip pattern that also holds an article pattern and a
\* date-like segment
C21_Witness ==
    /\ call.pc = "done" /\ call.result = FALSE
    /\ SkipMatch(call.arg) /\ ArticleMatch(call.arg)

C23_ExistingSkipped ==
    [][ (/\ sweep.pc = "check" /\ sweep' # sweep
         /\ \E a \in articles : a.url = article_url
         /\ sweep'.results.errors = sweep.results.errors)
        => /\ sweep'.outcomes = Append(sweep.outcomes, "existing")
           /\ sweep'.results =
                [sweep.results EXCEPT !.existing_articles = @ + 1]
           /\ sweep'.pc \in {"check", "discover", "done"}
           /\ sweep'.article_data = None /\ sweep'.llm = {}
           /\ UNCHANGED <<storage, fetcher>> ]_vars

C23_Witness ==
    /\ sweep.outcomes # <<>>
    /\ sweep.outcomes[Len(sweep.outcomes)] = "existing"
    /\ sweep.results.existing_articles = 1
    /\ sweep.results.new_articles = 0

\* C24: no step of a sweep or of a single-url ingestion deletes a row of the
\* articles table or changes a field of one: every row in the table is still
\* there, as it was, after the step.
C24_ArticlesOnlyGrow ==
    [][ \A a \in articles : a \in articles' ]_vars

C24_Witness ==
    \E a, b \in articles : a.article_id = 1 /\ b.article_id = 2 /\ a.url # b.url

\* C25: a sweep goes through the registrations that are active, each once
\* and in the order of the registry; the registration it is working on is
\* never an inactive one, no inactive registration is ever visited, and a
\* sweep that read the registry returns after it has visited every active one.
C25_OnlyActiveVisited ==
    /\ Len(sweep.visited) <= Len(ActiveUrls)
    /\ \A i \in DOMAIN sweep.visited : sweep.visited[i] = ActiveUrls[i]
    /\ sweep.entry_idx > 0 => registry_entry.active
    /\ \A i \in DOMAIN crawl_registry :
            ~crawl_registry[i].active =>
                /\ \A k \in DOMAIN sweep.visited : sweep.visited[k] # crawl_registry[i].url
                /\ \A a \in articles : a.url # crawl_registry[i].url
    /\ (sweep.pc = "done" /\ sweep.active_entries # <<>>) => sweep.visited = ActiveUrls

C25_Witness ==
    /\ sweep.pc = "done"
    /\ sweep.visited = <<"p1", "p2">>
    /\ sweep.results.errors = <<>>
    /\ \E i \in DOMAIN crawl_registry : ~crawl_registry[i].active

TopicLabels == {"extract_topics", "get_topic", "add_topic", "link_topic"}
CompanyLabels ==
    {"extract_companies", "get_company", "research_company", "add_company",
     "link_company"}

\* C26: an ingestion is in its topic (company) enrichment, and has sent a
\* topic (company) request to the LLM for its article, only when its extract_topics
\* (extract_companies) flag is set; a step adds a topic (company) or an
\* association only inside the enrichment of such an ingestion; and a blank
\* name is never looked up, stored or linked.
C26_FlagsGateEnrichment ==
    /\ [](/\ (/\ sweep.pc \notin {"idle", "discover", "done"}
               /\ (sweep.pc \in TopicLabels \/ "extract_topics" \in sweep.llm))
                => registry_entry.extract_topics
          /\ (/\ sweep.pc \notin {"idle", "discover", "done"}
               /\ (sweep.pc \in CompanyLabels \/ "extract_companies" \in sweep.llm
                        \/ "research_company" \in sweep.llm))
                => registry_entry.extract_companies
          /\ (single.pc \in TopicLabels \/ "extract_topics" \in single.llm)
                => single.extract_topics
          /\ (single.pc \in CompanyLabels \/ "extract_companies" \in single.llm
                    \/ "research_company" \in single.llm)
                => single.extract_companies
          /\ sweep.pc \in (TopicLabels \cup CompanyLabels) \ {"extract_topics", "extract_companies"}
                => Head(sweep.names) # ""
          /\ single.pc \in (TopicLabels \cup CompanyLabels) \ {"extract_topics", "extract_companies"}
                => Head(single.names) # ""
          /\ \A t \in topics : t.name # ""
          /\ \A c \in companies : c.name # "")
    /\ [][ /\ (topics' # topics \/ article_topics' # article_topics)
                => \/ sweep.pc \in TopicLabels /\ sweep' # sweep
                   \/ single.pc \in TopicLabels /\ single' # single
           /\ (companies' # companies \/ article_companies' # article_companies)
                => \/ sweep.pc \in CompanyLabels /\ sweep' # sweep
                   \/ single.pc \in CompanyLabels /\ single' # single ]_vars

\* a sweep registered for companies only stored an article and linked it to a
\* company and to no topic, after a single-URL call without flags had stored
\* an article and linked it to nothing
C26_Witness ==
    /\ sweep.pc = "done"
    /\ ~crawl_registry[1].extract_topics
    /\ crawl_registry[1].extract_companies
    /\ sweep.outcomes = <<"new">>
    /\ sweep.results.companies_added = 1
    /\ Cardinality(articles) = 2
    /\ topics = {} /\ article_topics = {}
    /\ article_companies = {<<2, 1>>}

\* C27: storage never holds two topics or two companies of one name, and an
\* ingestion whose mention of a name reaches the insert when an entity of that
\* name is in storage goes on to link its article to that entity.
C27_OneEntityPerName ==
    [][ /\ \A t1, t2 \in topics' : t1.name = t2.name => t1 = t2
        /\ \A c1, c2 \in companies' : c1.name = c2.name => c1 = c2
        /\ (sweep.pc = "add_topic" /\ sweep' # sweep
                /\ get_topic_by_name(Head(sweep.names)) # NoId)
            => /\ sweep'.pc = "link_topic"
               /\ sweep'.entity_id = get_topic_by_name(Head(sweep.names))
        /\ (single.pc = "add_topic" /\ single' # single
                /\ get_topic_by_name(Head(single.names)) # NoId)
            => /\ single'.pc = "link_topic"
               /\ single'.entity_id = get_topic_by_name(Head(single.names))
        /\ (sweep.pc = "add_company" /\ sweep' # sweep
                /\ get_company_by_name(Head(sweep.names)) # NoId)
            => /\ sweep'.pc = "link_company"
               /\ sweep'.entity_id = get_company_by_name(Head(sweep.names))
        /\ (single.pc = "add_company" /\ single' # single
                /\ get_company_by_name(Head(single.names)) # NoId)
            => /\ single'.pc = "link_company"
               /\ single'.entity_id = get_company_by_name(Head(single.names)) ]_vars

\* a company of that name is in the companies table
CompanyStored(name) == \E c \in companies : c.name = name

\* an ingestion reaches its research call only from a lookup that found no
\* company of that name, and goes from a lookup that found one straight to the
\* link: no research call, no new company
ResearchOnlyAfterMiss ==
    /\ (sweep'.pc = "research_company" /\ sweep.pc # "research_company")
        => sweep.pc = "get_company" /\ ~CompanyStored(Head(sweep.names))
    /\ (single'.pc = "research_company" /\ single.pc # "research_company")
        => single.pc = "get_company" /\ ~CompanyStored(Head(single.names))
    /\ researched' # researched
        => \/ sweep.pc = "research_company" /\ sweep' # sweep
           \/ single.pc = "research_company" /\ single' # single
    /\ (sweep.pc = "get_company" /\ sweep'.pc = "link_company")
        => /\ \E c \in companies : /\ c.name = Head(sweep.names)
                                   /\ c.company_id = sweep'.entity_id
           /\ UNCHANGED <<companies, researched>>
    /\ (single.pc = "get_company" /\ single'.pc = "link_company")
        => /\ \E c \in companies : /\ c.name = Head(single.names)
                                   /\ c.company_id = single'.entity_id
           /\ UNCHANGED <<companies, researched>>

\* C28 as claimed: research_company is called for a name only when the lookup
\* found no company of that name, a mention of a stored company calls no
\* research and creates no company, and in a sequential run no name is
\* researched twice.
C28_ResearchedAtMostOnce ==
    [][ /\ ResearchOnlyAfterMiss
        /\ \A i, j \in DOMAIN researched' : i # j => researched'[i] # researched'[j] ]_vars

\* C28 as amended: research_company is called for a name only when the lookup
\* found no company of that name, a mention of a stored company calls no
\* research and creates no company, and in a sequential run a name is
\* researched only while no company of that name is in storage: again after a
\* research or an insert that failed, never once the company is stored.
C28_ResearchOnlyWhileUnstored ==
    [][ /\ ResearchOnlyAfterMiss
        /\ researched' # researched
            => /\ ~CompanyStored(researched'[Len(researched')])
               /\ researched' = Append(researched, researched'[Len(researched')]) ]_vars

\* the second article of a sequential run mentions the company the first one
\* had researched and stored, and is linked to it without another research
C28_Witness ==
    /\ researched = <<"acme">>
    /\ Cardinality(companies) = 1
    /\ Cardinality(article_companies) = 2

\* C29: in the result of crawl_single_url, success = True comes with
\* error = None: the error is set only when nothing was persisted.
C29_NoErrorWithSuccess ==
    single.results.success => single.results.error = None

\* C30: when run_crawl returns, total_urls is the number of candidate article
\* urls the sweep discovered, and equals new_articles + existing_articles +
\* failed_extractions.
C30_TotalCountsCandidates ==
    sweep.pc = "done"
        => /\ sweep.results.total_urls = sweep.started
           /\ sweep.results.total_urls =
                sweep.results.new_articles + sweep.results.existing_articles
                    + sweep.results.failed_extractions

(***************************************************************************)
(* C31: within a sweep every candidate handed to the candidate loop is     *)
(* counted exactly once: new_articles + existing_articles +                *)
(* failed_extractions equals the number of candidates handed to the loop,  *)
(* less the one in progress that has not been counted yet, and a           *)
(* registration is left only when each of its candidates was handed to the *)
(* loop, whatever failed on the way.                                       *)
(***************************************************************************)
Counted == sweep.results.new_articles + sweep.results.existing_articles
               + sweep.results.failed_extractions
BeforeCount == {"check", "summarize", "add_article"}
AfterCount == {"extract_topics", "get_topic", "add_topic", "link_topic",
               "extract_companies", "get_company", "research_company",
               "add_company", "link_company"}

C31_EachCandidateCountedOnce ==
    /\ [](/\ sweep.pc \in BeforeCount => Counted = sweep.started - 1
          /\ sweep.pc \in AfterCount \cup {"discover", "done"} => Counted = sweep.started)
    /\ [][ /\ sweep.pc \in BeforeCount \cup AfterCount
           /\ sweep'.pc \in {"discover", "done"}
           => /\ sweep.url_idx = Len(sweep.article_urls)
              /\ Counted' = sweep'.started ]_vars

\* a sweep of four candidates: two stored, one rejected, one that raised,
\* and the enrichment of a stored one failed
C31_Witness ==
    /\ sweep.pc = "done"
    /\ sweep.started = 4
    /\ sweep.results.new_articles = 2
    /\ sweep.results.failed_extractions = 2
    /\ \E i, j \in 1..Len(sweep.outcomes) :
          sweep.outcomes[i] = "error" /\ sweep.outcomes[j] = "invalid"
    /\ \E a \in articles : a.url = "p2"
    /\ article_topics = {} /\ article_companies = {}

(***************************************************************************)
(* C33: an ingestion whose add_topic meets a topic of that name, created   *)
(* by another ingestion since its lookup, keeps that name and the names    *)
(* after it: it is still in its topic loop with the same names to link.    *)
(***************************************************************************)
TopicStored(name) == \E t \in topics : t.name = name

C33_ConflictKeepsLinks ==
    [][ /\ (sweep.pc = "add_topic" /\ sweep' # sweep /\ TopicStored(Head(sweep.names)))
            => /\ sweep'.pc \in {"get_topic", "link_topic"}
               /\ sweep'.names = sweep.names
               /\ sweep'.article_id = sweep.article_id
        /\ (single.pc = "add_topic" /\ single' # single /\ TopicStored(Head(single.names)))
            => /\ single'.pc \in {"get_topic", "link_topic"}
               /\ single'.names = single.names
               /\ single'.results.article_id = single.results.article_id ]_vars

(***************************************************************************)
(* C34: every stored article carries a summary that is not empty: the      *)
(* text the language model answered, or "Summary generation failed".       *)
(***************************************************************************)
C34_SummaryNeverEmpty ==
    \A a \in articles :
        /\ a.summary \notin {None, ""}
        /\ a.summary \in (Summaries \ {""}) \cup {"Summary generation failed"}

\* an article stored by the sweep with the fallback literal and one stored by
\* a single-url call with the answer of the language model
C34_Witness ==
    /\ \E a \in articles : a.summary = "Summary generation failed"
    /\ \E a \in articles : a.summary = "summary"
    /\ sweep.results.new_articles = 1
    /\ single.results.success

(***************************************************************************)
(* C32: no two executions of _make_request overlap, whatever sweeps and    *)
(* single-url ingestions run together on the shared crawler: at most one   *)
(* coroutine is inside _make_request, and it is the one the loop runs.     *)
(***************************************************************************)
InRequest == {i \in DOMAIN tasks : tasks[i].pc = "request"}

C32_OneFetchAtATime ==
    /\ Cardinality(InRequest) <= 1
    /\ \A i \in InRequest : running = i /\ ~tasks[i].suspended

\* a sweep inside _make_request while a single-url ingestion is suspended at
\* one of its awaits
C32_Witness ==
    \E i, j \in DOMAIN tasks :
        /\ tasks[i].fn = "run_crawl_background" /\ tasks[i].pc = "request"
        /\ tasks[j].fn = "crawl_single_url" /\ tasks[j].pc = "run"
        /\ tasks[j].suspended

(***************************************************************************)
(* C35: at most one run_refresh_all_background task is executing at any    *)
(* time.                                                                   *)
(***************************************************************************)
Executing(fn) ==
    {i \in DOMAIN tasks : tasks[i].fn = fn /\ tasks[i].pc \notin {"pending", "returned"}}

C35_OneRefreshAtATime == Cardinality(Executing("run_refresh_all_background")) <= 1

(***************************************************************************)
(* C36: at most one coroutine is inside crawler.run_crawl at any time,     *)
(* whether run_crawl_background is a task of its own or the first step of  *)
(* run_refresh_all_background.                                             *)
(***************************************************************************)
InSweep ==
    {i \in DOMAIN tasks :
        /\ tasks[i].pc \in {"run", "request"}
        /\ tasks[i].fn # "crawl_single_url"
        /\ BackgroundFn(tasks[i]) = "run_crawl_background"}

C36_OneSweepAtATime == Cardinality(InSweep) <= 1

(***************************************************************************)
(* C37: run_refresh_all_background takes its steps in order, one at a      *)
(* time; it goes on to the research only with the crawl job completed and  *)
(* to the trending reports only with the research job completed; a crawl   *)
(* or research step that ends otherwise ends the task with the refresh_all *)
(* job in error and no further step; and the task sets the refresh_all job *)
(* to completed only after a completed crawl and a completed research,     *)
(* whatever the trending reports came to.                                  *)
(***************************************************************************)
Refreshes == {i \in DOMAIN tasks : tasks[i].fn = "run_refresh_all_background"}

C37_RefreshStepsInOrder ==
    [][ \A i \in Refreshes :
          LET t == tasks[i]
              u == tasks'[i]
          IN  /\ u.step \in {t.step, t.step + 1}
              /\ (t.step = 1 /\ u.step = 2) => job_tracker'["crawl"].status = "completed"
              /\ (t.step = 2 /\ u.step = 3) => job_tracker'["research"].status = "completed"
              /\ (/\ t.step \in {1, 2}
                  /\ Len(u.outcomes) = Len(t.outcomes) + 1
                  /\ u.outcomes[Len(u.outcomes)] # "completed")
                 => /\ u.pc = "returned" /\ u.step = t.step
                    /\ job_tracker'["refresh_all"].status = "error"
              /\ (t.pc # "returned" /\ u.pc = "returned"
                    /\ job_tracker'["refresh_all"].status = "completed")
                 => /\ Len(u.outcomes) = Len(RefreshSteps)
                    /\ u.outcomes[1] = "completed" /\ u.outcomes[2] = "completed" ]_vars

\* a refresh that completed although two of its trending reports failed
C37_Witness ==
    \E i \in Refreshes :
        /\ tasks[i].pc = "returned"
        /\ tasks[i].outcomes = <<"completed", "completed", "error", "completed", "error">>
        /\ job_tracker["refresh_all"].status = "completed"

(***************************************************************************)
(* C38: no run_*_background function returns leaving its own job running:  *)
(* in the step in which it returns, its job is completed or in error.      *)
(***************************************************************************)
C38_NoReturnWhileRunning ==
    [][ \A i \in DOMAIN tasks :
          LET t == tasks[i]
              u == tasks'[i]
          IN  /\ (t.fn # "crawl_single_url" /\ Len(u.outcomes) = Len(t.outcomes) + 1)
                 => job_tracker'[JobOf(BackgroundFn(t))].status \in {"completed", "error"}
              /\ (t.fn = "run_refresh_all_background" /\ t.pc # "returned"
                    /\ u.pc = "returned")
                 => job_tracker'["refresh_all"].status \in {"completed", "error"} ]_vars

\* a crawl that returned on its not-configured or exception path, and a
\* refresh that returned after its research failed
C38_Witness ==
    \E i, j \in DOMAIN tasks :
        /\ tasks[i].fn = "run_crawl_background" /\ tasks[i].pc = "returned"
        /\ tasks[i].outcomes = <<"error">>
        /\ tasks[j].fn = "run_refresh_all_background" /\ tasks[j].pc = "returned"
        /\ tasks[j].outcomes = <<"completed", "error">>
        /\ job_tracker["refresh_all"].status = "error"

(***************************************************************************)
(* C39: in every state of the tracker a running job has no error and no    *)
(* completed_at, a job in error has both, a completed job has a            *)
(* completed_at; reset_job leaves its job idle with started_at,            *)
(* completed_at and error None and no results; and update_job_step,        *)
(* complete_job, fail_job and reset_job on a name the tracker does not     *)
(* hold change nothing.                                                    *)
(***************************************************************************)
C39_TrackerConsistent ==
    /\ [](\A n \in DOMAIN job_tracker :
            LET job == job_tracker[n]
            IN  /\ job.status = "running" => job.error = None /\ job.completed_at = None
                /\ job.status = "error" => job.error # None /\ job.completed_at # None
                /\ job.status = "completed" => job.completed_at # None)
    /\ [][ /\ (call'.fn = "reset_job" /\ call'.arg \in DOMAIN job_tracker)
              => LET job == job_tracker'[call'.arg]
                 IN  /\ job.status = "idle"
                     /\ job.started_at = None /\ job.completed_at = None
                     /\ job.error = None /\ job.results = "{}"
           /\ (call'.fn \in {"update_job_step", "complete_job", "fail_job", "reset_job"}
                 /\ call'.arg \notin DOMAIN job_tracker)
              => job_tracker' = job_tracker ]_vars

\* a name the tracker did not know, started and then reset, next to a job
\* that was completed after a failure
C39_Witness ==
    /\ call.fn = "reset_job" /\ call.arg = "export"
    /\ "export" \in call.before
    /\ job_tracker["export"].status = "idle"
    /\ job_tracker["refresh_all"].status = "completed"
    /\ job_tracker["refresh_all"].error # None
====
